---- MODULE Spec2Model ----
(***************************************************************************)
(* A model of terraform-provider-notion (internal/provider): the rich-text *)
(* codec, the composite import key, the block builders, the database-entry *)
(* property patch, and the Create/Read/Update/Delete handlers of the       *)
(* managed resources run against a small model of the Notion API.          *)
(*                                                                         *)
(* Go strings are sequences of one-character strings, so that splitting,   *)
(* scanning and hyphen removal are computed the way the code computes them.*)
(***************************************************************************)
EXTENDS Integers, Sequences, FiniteSets, TLC

VARIABLES
    \* rich-text codec (helpers.go): text, the flat text handed to
    \* plainToRichText; run, the rich-text run last produced or received;
    \* flat, the flat text last produced by richTextToPlain; pc
    codec,
    \* composite import key (ImportState of the database property resources):
    \* parent and field, the parts the import ID was written from; id, the
    \* import ID; out, ImportState's outcome; pc
    imp,
    \* block builders (buildBlockForCreate, buildBlockUpdateRequest): plan, the
    \* flat BlockResourceModel; created and update, what the builders returned
    build,
    \* one managed resource and its remote object: kind, the resource type;
    \* state, the tracked state (Nil when Terraform tracks nothing); remote,
    \* the object in the workspace (Nil before it exists); last, the outcome
    \* of the handler that ran last; ops, the handlers run so far
    res

vars == <<codec, imp, build, res>>

Null == "null"
\* a nil pointer, an absent object
Nil == [nil |-> TRUE]

\* ------------------------------------------------------------------ bounds

\* longest flat text enumerated for the codec
MaxTextLen == 6
\* longest parent ID / field name enumerated for the composite key
MaxKeyLen == 3
\* handler invocations (Create, Read, Update, Delete) on one resource
MaxOps == 3
\* handler invocations on one database entry, whose plans are many
MaxEntryOps == 2
\* most map entries, over the nine buckets, of one database entry plan
MaxEntries == 1
\* longest identifier enumerated for normalizeID
MaxIdLen == 4
\* most segments of a rich-text run enumerated for decoding
MaxRunLen == 3

\* ----------------------------------------------------------------- strings

SeqsUpTo(S, n) == UNION {[1..k -> S] : k \in 0..n}

\* text[from:to] of Go with 1-based inclusive bounds; empty when from > to
Slice(s, from, to) == IF from > to THEN <<>> ELSE SubSeq(s, from, to)

\* index of the first c in s at or after position from, 0 when there is none
RECURSIVE IndexFrom(_, _, _)
IndexFrom(s, c, from) ==
    IF from > Len(s) THEN 0
    ELSE IF s[from] = c THEN from
    ELSE IndexFrom(s, c, from + 1)

Contains(s, c) == IndexFrom(s, c, 1) # 0

\* strings.ReplaceAll(id, "-", "")
RECURSIVE RemoveHyphens(_)
RemoveHyphens(s) ==
    IF s = <<>> THEN <<>>
    ELSE IF Head(s) = "-" THEN RemoveHyphens(Tail(s))
    ELSE <<Head(s)>> \o RemoveHyphens(Tail(s))

\* strings.Replace(id, "-", "", 1): only the first hyphen goes
RECURSIVE RemoveFirstHyphen(_)
RemoveFirstHyphen(s) ==
    IF s = <<>> THEN <<>>
    ELSE IF Head(s) = "-" THEN Tail(s)
    ELSE <<Head(s)>> \o RemoveFirstHyphen(Tail(s))
normalizeID_FirstHyphenOnly(id) == RemoveFirstHyphen(id)
\* an identifier kept as the API writes it
normalizeID_AsReceived(id) == id

normalizeID(id) == RemoveHyphens(id)

\* --------------------------------------------------------- rich-text codec

\* notionapi.RichText as the codec builds and reads it: Text may be nil, its
\* Link may be nil, and PlainText is a field of its own.
NoText == [nil |-> TRUE]
NoLink == [nil |-> TRUE]
TextOf(content, link) == [nil |-> FALSE, content |-> content, link |-> link]
LinkOf(url) == [nil |-> FALSE, url |-> url]

\* The RichText literals plainToRichText writes: Type and Text are set, and
\* PlainText keeps Go's zero value, the empty string.
PlainSegment(content) ==
    [type |-> "text", text |-> TextOf(content, NoLink), plain_text |-> <<>>]

LinkSegment(display, url) ==
    [type |-> "text", text |-> TextOf(display, LinkOf(url)), plain_text |-> <<>>]

\* mdLinkRe = \[([^\]]+)\]\(([^)]+)\) tried at position i: the display text
\* cannot hold "]", so it ends at the first "]" after i; the url cannot hold
\* ")", so it ends at the first ")" after "](" ; both are non-empty.
MatchAt(t, i) ==
    IF i > Len(t) \/ t[i] # "[" THEN [ok |-> FALSE]
    ELSE LET j == IndexFrom(t, "]", i + 1) IN
         IF j = 0 \/ j = i + 1 \/ j + 1 > Len(t) \/ t[j + 1] # "(" THEN [ok |-> FALSE]
         ELSE LET k == IndexFrom(t, ")", j + 2) IN
              IF k = 0 \/ k = j + 2 THEN [ok |-> FALSE]
              ELSE [ok |-> TRUE, start |-> i, dstart |-> i + 1, dend |-> j - 1,
                    ustart |-> j + 2, uend |-> k - 1, end |-> k]

\* mdLinkRe.FindAllStringSubmatchIndex(text, -1): leftmost matches, none
\* overlapping, the search resuming right after each match
RECURSIVE FindAllFrom(_, _)
FindAllFrom(t, from) ==
    IF from > Len(t) THEN <<>>
    ELSE LET m == MatchAt(t, from) IN
         IF m.ok THEN <<m>> \o FindAllFrom(t, m.end + 1)
         ELSE FindAllFrom(t, from + 1)

\* the loop of plainToRichText over the matches, cursor being the position
\* after the last match consumed (1-based: cursor - 1 characters consumed)
RECURSIVE SegmentsFrom(_, _, _)
SegmentsFrom(t, matches, cursor) ==
    IF matches = <<>> THEN
        IF cursor <= Len(t) THEN <<PlainSegment(Slice(t, cursor, Len(t)))>> ELSE <<>>
    ELSE LET m == Head(matches)
             before == IF m.start > cursor
                       THEN <<PlainSegment(Slice(t, cursor, m.start - 1))>>
                       ELSE <<>>
             link == LinkSegment(Slice(t, m.dstart, m.dend), Slice(t, m.ustart, m.uend))
         IN before \o <<link>> \o SegmentsFrom(t, Tail(matches), m.end + 1)

plainToRichText(t) ==
    LET matches == FindAllFrom(t, 1) IN
    IF matches = <<>> THEN <<PlainSegment(t)>>
    ELSE SegmentsFrom(t, matches, 1)

\* a decoding that writes every segment's plain text bare
RECURSIVE richTextToPlain_LinksDropped(_)
richTextToPlain_LinksDropped(rt) ==
    IF rt = <<>> THEN <<>>
    ELSE Head(rt).plain_text \o richTextToPlain_LinksDropped(Tail(rt))

\* one iteration of richTextToPlain's loop
SegmentToPlain(r) ==
    IF ~r.text.nil /\ ~r.text.link.nil /\ r.text.link.url # <<>>
    THEN <<"[">> \o r.plain_text \o <<"]", "(">> \o r.text.link.url \o <<")">>
    ELSE r.plain_text

RECURSIVE richTextToPlain(_)
richTextToPlain(rt) ==
    IF rt = <<>> THEN <<>>
    ELSE SegmentToPlain(Head(rt)) \o richTextToPlain(Tail(rt))

\* The API's echo of a stored run: every text segment comes back with
\* plain_text equal to its content (richTextToPlain reads only plain_text).
EchoSegment(r) == IF r.text.nil THEN r ELSE [r EXCEPT !.plain_text = r.text.content]
ServerEcho(rt) == [i \in 1..Len(rt) |-> EchoSegment(rt[i])]

\* the characters of the enumerated flat texts
TextChars == {"a", "[", "]", "(", ")"}
FlatTexts == SeqsUpTo(TextChars, MaxTextLen)

\* A flat text whose only brackets are those of its link spans: every span
\* the scan finds has bracket-free display and url, and no bracket is left
\* outside the spans.
BracketChars == {"[", "]", "(", ")"}
NoBrackets(s) == \A i \in 1..Len(s) : s[i] \notin BracketChars
InSpan(matches, i) == \E n \in 1..Len(matches) : matches[n].start <= i /\ i <= matches[n].end
WellFormedLinks(t) ==
    LET matches == FindAllFrom(t, 1) IN
    /\ \A n \in 1..Len(matches) :
          /\ NoBrackets(Slice(t, matches[n].dstart, matches[n].dend))
          /\ NoBrackets(Slice(t, matches[n].ustart, matches[n].uend))
    /\ \A i \in 1..Len(t) : t[i] \in BracketChars => InSpan(matches, i)

\* a subsystem a specification does not exercise
Off == [pc |-> "off"]
NoResource == [kind |-> "none"]

CodecInit ==
    codec \in {[text |-> t, run |-> <<>>, flat |-> <<>>, pc |-> "input"] : t \in FlatTexts}

\* a caller encodes its flat text (plainToRichText)
Encode ==
    /\ codec.pc = "input"
    /\ codec' = [codec EXCEPT !.run = plainToRichText(codec.text), !.pc = "encoded"]
    /\ UNCHANGED <<imp, build, res>>

\* the run is sent to the API and comes back in a response
Echo ==
    /\ codec.pc = "encoded"
    /\ codec' = [codec EXCEPT !.run = ServerEcho(codec.run), !.pc = "echoed"]
    /\ UNCHANGED <<imp, build, res>>

\* a caller decodes the run it holds (richTextToPlain), either the run just
\* built or the run a response carried
Decode ==
    /\ codec.pc \in {"encoded", "echoed"}
    /\ codec' = [codec EXCEPT !.flat = richTextToPlain(codec.run),
                              !.pc = IF codec.pc = "encoded" THEN "decoded"
                                     ELSE "decoded_echo"]
    /\ UNCHANGED <<imp, build, res>>

CodecNext == Encode \/ Echo \/ Decode

SpecCodecInit == CodecInit /\ imp = Off /\ build = Off /\ res = NoResource

SpecCodec == SpecCodecInit /\ [][CodecNext]_vars

\* C1: for every flat text t holding only well-formed, non-nested link
\* spans, richTextToPlain(plainToRichText(t)) returns exactly t.
C1_RoundTrip ==
    (codec.pc = "decoded" /\ WellFormedLinks(codec.text)) => codec.flat = codec.text

\* ------------------------------------------------------ decoding of runs

\* the segments of the runs a response may carry: text with and without a
\* link, with an empty link url, with empty text, and a segment that is no
\* text (a mention), which has no Text at all
ResponseSegments ==
    {[type |-> "text", text |-> TextOf(<<"a">>, NoLink), plain_text |-> <<"a">>],
     [type |-> "text", text |-> TextOf(<<"b">>, LinkOf(<<"u">>)), plain_text |-> <<"b">>],
     [type |-> "text", text |-> TextOf(<<"c">>, LinkOf(<<>>)), plain_text |-> <<"c">>],
     [type |-> "text", text |-> TextOf(<<>>, NoLink), plain_text |-> <<>>],
     [type |-> "mention", text |-> NoText, plain_text |-> <<"m">>]}
ResponseRuns == SeqsUpTo(ResponseSegments, MaxRunLen)

DecodeInit ==
    codec \in {[text |-> <<>>, run |-> r, flat |-> <<>>, pc |-> "received"] :
                  r \in ResponseRuns}

\* a handler decodes the run of a response (richTextToPlain)
DecodeReceived ==
    /\ codec.pc = "received"
    /\ codec' = [codec EXCEPT !.flat = richTextToPlain(codec.run), !.pc = "read"]
    /\ UNCHANGED <<imp, build, res>>

SpecDecodeInit == DecodeInit /\ imp = Off /\ build = Off /\ res = NoResource

SpecDecode == SpecDecodeInit /\ [][DecodeReceived]_vars

\* ------------------------------------------------------ composite import key

\* the characters of the enumerated parent IDs and field names
KeyChars == {"a", "/", "-"}
KeyParts == SeqsUpTo(KeyChars, MaxKeyLen)

\* a split at the last "/" instead of the first
parseCompositeID_LastSlash(id) ==
    LET slashes == {i \in 1..Len(id) : id[i] = "/"} IN
    IF slashes = {} THEN [err |-> TRUE]
    ELSE LET i == CHOOSE x \in slashes : \A y \in slashes : y <= x IN
         [err |-> FALSE, database |-> Slice(id, 1, i - 1),
          name |-> Slice(id, i + 1, Len(id))]

\* strings.SplitN(id, "/", 2): two parts cut at the first "/", one part (an
\* error) when the ID holds no "/"
parseCompositeID(id) ==
    LET i == IndexFrom(id, "/", 1) IN
    IF i = 0 THEN [err |-> TRUE]
    ELSE [err |-> FALSE, database |-> Slice(id, 1, i - 1),
          name |-> Slice(id, i + 1, Len(id))]

ImportInit ==
    imp \in {[parent |-> p, field |-> f, id |-> <<>>, out |-> Null, pc |-> "input"] :
              p \in KeyParts, f \in KeyParts}

\* the import ID documented for database properties: <database-id>/<property-name>
ComposeKey ==
    /\ imp.pc = "input"
    /\ imp' = [imp EXCEPT !.id = imp.parent \o <<"/">> \o imp.field, !.pc = "composed"]
    /\ UNCHANGED <<codec, build, res>>

\* an import ID written without the separator being added
RawKey ==
    /\ imp.pc = "input"
    /\ imp' = [imp EXCEPT !.id = imp.parent, !.pc = "raw"]
    /\ UNCHANGED <<codec, build, res>>

\* ImportState of the database property resources: an error diagnostic, or
\* the database and name attributes set from the two parts
ImportState ==
    /\ imp.pc \in {"composed", "raw"}
    /\ LET r == parseCompositeID(imp.id) IN
       imp' = [imp EXCEPT
                 !.out = IF r.err THEN [err |-> TRUE, set |-> FALSE]
                         ELSE [err |-> FALSE, set |-> TRUE,
                               database |-> r.database, name |-> r.name],
                 !.pc = IF imp.pc = "composed" THEN "imported" ELSE "imported_raw"]
    /\ UNCHANGED <<codec, build, res>>

ImportNext == ComposeKey \/ RawKey \/ ImportState

SpecImportInit == codec = Off /\ ImportInit /\ build = Off /\ res = NoResource

SpecImport == SpecImportInit /\ [][ImportNext]_vars

\* C2: for every parent ID p holding no "/" and every field name f (also one
\* holding "/"), parseCompositeID(p + "/" + f) succeeds and returns (p, f).
C2_CompositeRoundTrip ==
    (imp.pc = "imported" /\ ~Contains(imp.parent, "/")) =>
        /\ ~imp.out.err
        /\ imp.out.database = imp.parent
        /\ imp.out.name = imp.field

\* C2 witness: a field name holding "/" came back whole
C2_Witness ==
    /\ imp.pc = "imported"
    /\ ~Contains(imp.parent, "/")
    /\ imp.parent # <<>>
    /\ Contains(imp.field, "/")
    /\ ~imp.out.err
    /\ imp.out.name = imp.field

\* ------------------------------------------------------------ block builders

\* types.String / types.Bool of the plugin framework: null, unknown or known.
\* ValueString() and ValueBool() give the zero value for null and unknown.
StrNull == [k |-> "null"]
StrUnknown == [k |-> "unknown"]
Known(v) == [k |-> "known", v |-> v]
IsNull(x) == x.k = "null"
IsUnknown(x) == x.k = "unknown"
ValueString(x) == IF x.k = "known" THEN x.v ELSE <<>>
ValueBool(x) == IF x.k = "known" THEN x.v ELSE FALSE

\* the block kinds buildBlockForCreate knows, and those with an update path
BlockKinds ==
    {"paragraph", "heading_1", "heading_2", "heading_3", "bulleted_list_item",
     "numbered_list_item", "to_do", "toggle", "quote", "callout", "code",
     "equation", "divider", "table_of_contents", "bookmark", "embed", "image",
     "synced_block", "column_list", "column"}
ImmutableKinds == {"divider", "table_of_contents", "synced_block", "column_list", "column"}
MutableKinds == BlockKinds \ ImmutableKinds
HeadingKinds == {"heading_1", "heading_2", "heading_3"}
TextColorKinds ==
    {"paragraph", "bulleted_list_item", "numbered_list_item", "toggle", "quote"}

\* a value is "set" for the builders when it is known and not the empty string
IsSet(x) == ~IsNull(x) /\ ~IsUnknown(x) /\ ValueString(x) # <<>>

\* Callout.Icon: nil, or an emoji icon
EmojiIcon(x) ==
    IF IsSet(x) THEN [type |-> "emoji", emoji |-> ValueString(x)] ELSE Nil

\* a caption encoded whenever it is known, the empty string included
CreateCaption_WheneverKnown(x) ==
    IF ~IsNull(x) /\ ~IsUnknown(x) THEN plainToRichText(ValueString(x)) ELSE <<>>

\* Caption on create: left nil (no elements) unless the caption is set
CreateCaption(x) == IF IsSet(x) THEN plainToRichText(ValueString(x)) ELSE <<>>

\* Caption on update: encoded whenever the caption is known, also when empty
UpdateCaption(x) ==
    IF ~IsNull(x) /\ ~IsUnknown(x) THEN plainToRichText(ValueString(x)) ELSE <<>>

\* the kind payload shared by the two builders for the kinds that take no
\* caption: the struct literal each case writes
KindPayload(plan, blockType) ==
    CASE blockType \in TextColorKinds ->
           [rich_text |-> plainToRichText(ValueString(plan.rich_text)),
            color |-> ValueString(plan.color)]
      [] blockType \in HeadingKinds ->
           [rich_text |-> plainToRichText(ValueString(plan.rich_text)),
            color |-> ValueString(plan.color),
            is_toggleable |-> ValueBool(plan.is_toggleable)]
      [] blockType = "to_do" ->
           [rich_text |-> plainToRichText(ValueString(plan.rich_text)),
            checked |-> ValueBool(plan.checked),
            color |-> ValueString(plan.color)]
      [] blockType = "callout" ->
           [rich_text |-> plainToRichText(ValueString(plan.rich_text)),
            color |-> ValueString(plan.color),
            icon |-> EmojiIcon(plan.icon)]
      [] blockType = "equation" -> [expression |-> ValueString(plan.expression)]
      [] blockType = "embed" -> [url |-> ValueString(plan.url)]

\* code, bookmark and image, whose caption the caller encodes
CaptionPayload(plan, blockType, caption) ==
    CASE blockType = "code" ->
           [rich_text |-> plainToRichText(ValueString(plan.rich_text)),
            language |-> ValueString(plan.language),
            caption |-> caption]
      [] blockType = "bookmark" -> [url |-> ValueString(plan.url), caption |-> caption]
      [] blockType = "image" ->
           [type |-> "external", external |-> [url |-> ValueString(plan.url)],
            caption |-> caption]

CaptionKinds == {"code", "bookmark", "image"}

\* the payloads of the kinds only buildBlockForCreate builds
CreateOnlyPayload(plan, blockType) ==
    CASE blockType = "table_of_contents" -> [color |-> ValueString(plan.color)]
      [] blockType = "synced_block" ->
           [synced_from |-> IF IsSet(plan.synced_from)
                            THEN [block_id |-> ValueString(plan.synced_from)]
                            ELSE Nil]
      [] OTHER -> [empty |-> TRUE]

Ok(v) == [err |-> Null, value |-> v]
Err(e) == [err |-> e, value |-> Nil]

\* a create builder that knows only the kinds the update builder builds
buildBlockForCreate_UpdatableOnly(plan) ==
    LET blockType == ValueString(plan.type) IN
    CASE blockType \in MutableKinds \ CaptionKinds ->
           Ok([object |-> "block", type |-> blockType,
               body |-> KindPayload(plan, blockType)])
      [] blockType \in CaptionKinds ->
           Ok([object |-> "block", type |-> blockType,
               body |-> CaptionPayload(plan, blockType, CreateCaption(plan.caption))])
      [] OTHER -> Err("unsupported block type")

buildBlockForCreate(plan) ==
    LET blockType == ValueString(plan.type) IN
    CASE blockType \in MutableKinds \ CaptionKinds ->
           Ok([object |-> "block", type |-> blockType,
               body |-> KindPayload(plan, blockType)])
      [] blockType \in CaptionKinds ->
           Ok([object |-> "block", type |-> blockType,
               body |-> CaptionPayload(plan, blockType, CreateCaption(plan.caption))])
      [] blockType \in ImmutableKinds ->
           Ok([object |-> "block", type |-> blockType,
               body |-> CreateOnlyPayload(plan, blockType)])
      [] OTHER -> Err("unsupported block type")

\* an update builder that lets the immutable kinds through as empty requests
buildBlockUpdateRequest_NoImmutableCase(plan) ==
    LET blockType == ValueString(plan.type) IN
    CASE blockType \in MutableKinds \ CaptionKinds ->
           Ok([field |-> blockType, body |-> KindPayload(plan, blockType)])
      [] blockType \in CaptionKinds ->
           Ok([field |-> blockType,
               body |-> CaptionPayload(plan, blockType, UpdateCaption(plan.caption))])
      [] blockType \in ImmutableKinds ->
           Ok([field |-> blockType, body |-> [empty |-> TRUE]])
      [] OTHER -> Err("unsupported block type")

buildBlockUpdateRequest(plan) ==
    LET blockType == ValueString(plan.type) IN
    CASE blockType \in MutableKinds \ CaptionKinds ->
           Ok([field |-> blockType, body |-> KindPayload(plan, blockType)])
      [] blockType \in CaptionKinds ->
           Ok([field |-> blockType,
               body |-> CaptionPayload(plan, blockType, UpdateCaption(plan.caption))])
      [] blockType \in ImmutableKinds -> Err("does not support updates")
      [] OTHER -> Err("unsupported block type")

\* the flat models enumerated for the builders: every kind, two kinds outside
\* the enumeration, and for each field the values that select each branch
OtherKinds == {"table", ""}
TextVals == {<<>>, <<"a">>}
OptionalTexts == {StrNull, StrUnknown, Known(<<>>), Known(<<"a">>)}
SourceIds == {StrNull, Known(<<>>), Known(<<"b", "-", "1">>)}
Bools == {Known(FALSE), Known(TRUE)}

BuildPlans ==
    [id : {StrUnknown}, parent_id : {Known(<<"p", "1">>)},
     type : {Known(k) : k \in BlockKinds \cup OtherKinds},
     after : {StrNull}, has_children : {StrUnknown},
     rich_text : {Known(v) : v \in TextVals}, color : {Known(v) : v \in TextVals},
     is_toggleable : Bools, checked : Bools, icon : OptionalTexts,
     language : {Known(v) : v \in TextVals}, caption : OptionalTexts,
     url : {Known(v) : v \in TextVals}, expression : {Known(v) : v \in TextVals},
     synced_from : SourceIds]

BuildInit ==
    build \in {[plan |-> p, created |-> Nil, update |-> Nil, pc |-> "input"] :
                p \in BuildPlans}

\* BlockResource.Create's call of buildBlockForCreate
BuildCreate ==
    /\ build.pc = "input"
    /\ build' = [build EXCEPT !.created = buildBlockForCreate(build.plan), !.pc = "created"]
    /\ UNCHANGED <<codec, imp, res>>

\* BlockResource.Update's call of buildBlockUpdateRequest
BuildUpdate ==
    /\ build.pc = "created"
    /\ build' = [build EXCEPT !.update = buildBlockUpdateRequest(build.plan), !.pc = "done"]
    /\ UNCHANGED <<codec, imp, res>>

BuildNext == BuildCreate \/ BuildUpdate

SpecBuildInit == codec = Off /\ imp = Off /\ BuildInit /\ res = NoResource

SpecBuild == SpecBuildInit /\ [][BuildNext]_vars

\* C3: buildBlockUpdateRequest returns an error for divider,
\* table_of_contents, synced_block, column_list, column and for every kind
\* outside the enumeration, and a request without error for each of the other
\* 15 kinds, whatever the other fields of the model hold.
C3_UpdateFailsExactlyOnImmutable ==
    build.pc = "done" =>
        LET k == ValueString(build.plan.type) IN
        /\ (k \in ImmutableKinds \/ k \notin BlockKinds) =>
              (build.update.err # Null /\ build.update.value = Nil)
        /\ (k \in MutableKinds) =>
              (build.update.err = Null /\ build.update.value # Nil
               /\ build.update.value.field = k)
        /\ Cardinality(MutableKinds) = 15

\* C3 witness: an update of an immutable kind failed although the same model
\* built a block for create
C3_Witness ==
    /\ build.pc = "done"
    /\ ValueString(build.plan.type) = "table_of_contents"
    /\ build.created.err = Null
    /\ build.update.err = "does not support updates"

\* ----------------------------------------------------- database entry values

\* time.Parse of the two layouts buildEntryProperties tries
Digits == <<"0", "1", "2", "3", "4", "5", "6", "7", "8", "9">>
DigitChars == {Digits[d] : d \in 1..10}
DigitVal == [c \in DigitChars |-> (CHOOSE d \in 1..10 : Digits[d] = c) - 1]
\* s follows layout from position from on: a digit where layout has "d",
\* layout's own character elsewhere
Follows(s, from, layout) ==
    /\ Len(s) >= from + Len(layout) - 1
    /\ \A i \in 1..Len(layout) :
          IF layout[i] = "d" THEN s[from + i - 1] \in DigitChars
          ELSE s[from + i - 1] = layout[i]
TwoDigits(s, i) == DigitVal[s[i]] * 10 + DigitVal[s[i + 1]]
DaysIn(y, m) ==
    IF m = 2 THEN (IF (y % 4 = 0 /\ y % 100 # 0) \/ y % 400 = 0 THEN 29 ELSE 28)
    ELSE IF m \in {4, 6, 9, 11} THEN 30 ELSE 31

NoTime == [ok |-> FALSE]
DateLayout == <<"d", "d", "d", "d", "-", "d", "d", "-", "d", "d">>
ClockLayout == <<"T", "d", "d", ":", "d", "d", ":", "d", "d">>
OffsetLayout == <<"d", "d", ":", "d", "d">>

\* s starts with a calendar date in the layout "2006-01-02"
HasDate(s) ==
    /\ Follows(s, 1, DateLayout)
    /\ LET y == TwoDigits(s, 1) * 100 + TwoDigits(s, 3)
           m == TwoDigits(s, 6)
           d == TwoDigits(s, 9)
       IN m >= 1 /\ m <= 12 /\ d >= 1 /\ d <= DaysIn(y, m)

\* the time of day, fractional seconds and zone an RFC3339 text carries
\* after its date
HasClock(s) ==
    /\ Follows(s, 11, ClockLayout)
    /\ TwoDigits(s, 12) <= 23 /\ TwoDigits(s, 15) <= 59 /\ TwoDigits(s, 18) <= 59
\* where the zone starts: after the seconds, or after a fraction of digits
ZoneStart(s) ==
    IF Len(s) >= 21 /\ s[20] \in {".", ","} /\ s[21] \in DigitChars
    THEN CHOOSE z \in 22..(Len(s) + 1) :
            /\ \A i \in 21..(z - 1) : s[i] \in DigitChars
            /\ (z <= Len(s) => s[z] \notin DigitChars)
    ELSE 20
IsZone(s, z) ==
    \/ (Len(s) = z /\ s[z] = "Z")
    \/ /\ Len(s) = z + 5
       /\ s[z] \in {"+", "-"}
       /\ Follows(s, z + 1, OffsetLayout)
       /\ TwoDigits(s, z + 1) <= 23 /\ TwoDigits(s, z + 4) <= 59

TimeOf(s, hh, mi, ss, frac, zone) ==
    [ok |-> TRUE, year |-> TwoDigits(s, 1) * 100 + TwoDigits(s, 3),
     month |-> TwoDigits(s, 6), day |-> TwoDigits(s, 9),
     hour |-> hh, minute |-> mi, second |-> ss, frac |-> frac, zone |-> zone]

\* time.Parse("2006-01-02", val): midnight UTC of that day
ParseDateOnly(s) ==
    IF HasDate(s) /\ Len(s) = 10 THEN TimeOf(s, 0, 0, 0, <<>>, <<"Z">>) ELSE NoTime

\* time.Parse(time.RFC3339, val)
ParseRFC3339(s) ==
    IF HasDate(s) /\ HasClock(s) /\ IsZone(s, ZoneStart(s))
    THEN TimeOf(s, TwoDigits(s, 12), TwoDigits(s, 15), TwoDigits(s, 18),
                Slice(s, 21, ZoneStart(s) - 1), Slice(s, ZoneStart(s), Len(s)))
    ELSE NoTime

\* the date buildEntryProperties sends: RFC3339 first, then the bare date
ParseEntryDate(val) ==
    LET t == ParseRFC3339(val) IN IF t.ok THEN t ELSE ParseDateOnly(val)

\* the nine value buckets of DatabaseEntryResourceModel, in the order the
\* code walks them
BucketOrder ==
    <<"rich_text", "number", "checkbox", "select", "status", "url", "email",
      "phone_number", "date">>
Buckets == {BucketOrder[i] : i \in 1..Len(BucketOrder)}

\* types.Map: null, unknown, or a map from property name to value
MapNull == [k |-> "null"]
MapUnknown == [k |-> "unknown"]
MapOf(m) == [k |-> "known", m |-> m]
NoEntries == <<>>
\* Elements() of a types.Map (nothing for null and unknown)
Elements(b) == IF b.k = "known" THEN b.m ELSE NoEntries
Keys(b) == DOMAIN Elements(b)

\* the property value buildEntryProperties writes for one entry of a bucket
EntryProperty(bucket, val) ==
    CASE bucket = "rich_text" -> [type |-> "rich_text", rich_text |-> plainToRichText(val)]
      [] bucket = "number" -> [type |-> "number", number |-> val]
      [] bucket = "checkbox" -> [type |-> "checkbox", checkbox |-> val]
      [] bucket = "select" -> [type |-> "select", select |-> [name |-> val]]
      [] bucket = "status" -> [type |-> "status", status |-> [name |-> val]]
      [] bucket = "url" -> [type |-> "url", url |-> val]
      [] bucket = "email" -> [type |-> "email", email |-> val]
      [] bucket = "phone_number" -> [type |-> "phone_number", phone_number |-> val]
      [] bucket = "date" -> [type |-> "date", date |-> [start |-> ParseEntryDate(val)]]

\* the empty/default value clearRemovedProperties writes for a removed key
ClearedProperty(bucket) ==
    CASE bucket = "rich_text" -> [type |-> "rich_text", rich_text |-> <<>>]
      [] bucket = "number" -> [type |-> "number", number |-> 0]
      [] bucket = "checkbox" -> [type |-> "checkbox", checkbox |-> FALSE]
      [] bucket = "select" -> [type |-> "select", select |-> [name |-> <<>>]]
      [] bucket = "status" -> [type |-> "status", status |-> [name |-> <<>>]]
      [] bucket = "url" -> [type |-> "url", url |-> <<>>]
      [] bucket = "email" -> [type |-> "email", email |-> <<>>]
      [] bucket = "phone_number" -> [type |-> "phone_number", phone_number |-> <<>>]
      [] bucket = "date" -> [type |-> "date", date |-> Nil]

\* the names of one bucket that reach the request: every key, except the
\* date keys whose value does not parse (a diagnostic and continue)
SentKeys(bucket, b) ==
    IF b.k # "known" THEN {}
    ELSE IF bucket = "date" THEN {n \in DOMAIN b.m : ParseEntryDate(b.m[n]).ok}
    ELSE DOMAIN b.m

\* BucketProperties forgetting the date bucket
BucketProperties_NoDate(bucket, b) ==
    IF bucket = "date" THEN NoEntries
    ELSE [n \in SentKeys(bucket, b) |-> EntryProperty(bucket, b.m[n])]

BucketProperties(bucket, b) ==
    [n \in SentKeys(bucket, b) |-> EntryProperty(bucket, b.m[n])]

\* buildEntryProperties: the buckets are written into one map in BucketOrder,
\* a later bucket replacing an earlier bucket's entry of the same name
RECURSIVE PropertiesUpTo(_, _)
PropertiesUpTo(plan, n) ==
    IF n = 0 THEN NoEntries
    ELSE BucketProperties(BucketOrder[n], plan.buckets[BucketOrder[n]])
         @@ PropertiesUpTo(plan, n - 1)

buildEntryProperties(plan) ==
    [props |-> PropertiesUpTo(plan, Len(BucketOrder)),
     hasError |-> \E n \in Keys(plan.buckets["date"]) :
                      ~ParseEntryDate(plan.buckets["date"].m[n]).ok]

\* removedKeys with the roles of state and plan exchanged
removedKeys_Swapped(stateMap, planMap) ==
    IF planMap.k # "known" THEN {}
    ELSE {key \in DOMAIN planMap.m : key \notin Keys(stateMap)}

\* removedKeys: the keys of stateMap that planMap does not hold
removedKeys(stateMap, planMap) ==
    IF stateMap.k # "known" THEN {}
    ELSE LET planElems == IF planMap.k = "known" THEN planMap.m ELSE NoEntries IN
         {key \in DOMAIN stateMap.m : key \notin DOMAIN planElems}

\* clearRemovedProperties: bucket after bucket, every removed key is
\* assigned the bucket's empty value in props
RECURSIVE ClearedUpTo(_, _, _, _)
ClearedUpTo(state, plan, props, n) ==
    IF n = 0 THEN props
    ELSE LET bucket == BucketOrder[n]
             removed == removedKeys(state.buckets[bucket], plan.buckets[bucket])
         IN [name \in removed |-> ClearedProperty(bucket)]
            @@ ClearedUpTo(state, plan, props, n - 1)

clearRemovedProperties(state, plan, props) ==
    ClearedUpTo(state, plan, props, Len(BucketOrder))

\* the title value Create and Update put under the title column's name
TitleProperty(plan) == [type |-> "title", title |-> plainToRichText(ValueString(plan.title))]

\* Pad2/Pad4: the zero-padded decimal fields of time.Format
Pad2(n) == <<Digits[((n \div 10) % 10) + 1], Digits[(n % 10) + 1]>>
Pad4(n) == Pad2(n \div 100) \o Pad2(n % 100)
DateString(t) == Pad4(t.year) \o <<"-">> \o Pad2(t.month) \o <<"-">> \o Pad2(t.day)
ZeroOffset(zone) == zone = <<"Z">> \/ (TwoDigits(zone, 2) = 0 /\ TwoDigits(zone, 5) = 0)
\* t.Hour(), t.Minute(), t.Second() and t.Nanosecond() are all zero
IsMidnight(t) ==
    /\ t.hour = 0 /\ t.minute = 0 /\ t.second = 0
    /\ \A i \in 1..Len(t.frac) : i > 9 \/ t.frac[i] = "0"

\* formatNotionDate: the bare date at midnight, RFC3339 otherwise
formatNotionDate(t) ==
    IF IsMidnight(t) THEN DateString(t)
    ELSE DateString(t) \o <<"T">> \o Pad2(t.hour) \o <<":">> \o Pad2(t.minute)
         \o <<":">> \o Pad2(t.second)
         \o (IF ZeroOffset(t.zone) THEN <<"Z">> ELSE t.zone)

\* ------------------------------------------------------- the Notion client

\* the outcome of one handler: the state Terraform tracks afterwards, the
\* error diagnostic (Null when there is none) and the API requests sent
Outcome(state, error, sent) == [state |-> state, error |-> error, sent |-> sent]
\* the handler that ran last: what it was given (prior state, plan, the
\* answer its GET met) and what came of it. An action runs its handler
\* once and binds what it returned (done)
NoOp ==
    [op |-> "none", error |-> Null, sent |-> <<>>, prior |-> Nil, plan |-> Nil,
     answer |-> "none"]
Ran(op, prior, plan, answer, out) ==
    [op |-> op, error |-> out.error, sent |-> out.sent, prior |-> prior, plan |-> plan,
     answer |-> answer]
\* how a GET was answered: the failure, or the archived flag of the object
Answer(resp) ==
    IF resp.err # Null THEN resp.err ELSE IF resp.value.archived THEN "archived" ELSE "live"

\* what the environment does to a call: serve it, or fail it in transit
Faults == {"none", "transport"}

\* a GET of an object: a transport failure, 404 for an object that is not
\* there, the object otherwise (an archived object is served, flagged)
GetResponse(remote, fault) ==
    IF fault # "none" THEN Err(fault)
    ELSE IF remote = Nil THEN Err("not_found")
    ELSE IF remote.gone THEN Err("not_found")
    ELSE Ok(remote)

\* the property values of a page as the API returns them
ViewProperty(p) ==
    CASE p.type = "rich_text" -> [p EXCEPT !.rich_text = ServerEcho(@)]
      [] p.type = "title" -> [p EXCEPT !.title = ServerEcho(@)]
      [] OTHER -> p
ViewPage(page) == [page EXCEPT !.properties = [n \in DOMAIN @ |-> ViewProperty(@[n])]]

ObjectURL == <<"u">>
\* the ID the workspace gives a new object, hyphenated as the API writes it
ObjectId == <<"o", "-", "1">>
\* the page or block a new object is put under
ParentId == <<"p", "-", "1">>

\* Page.Create as the workspace serves it
ServedPageCreate(req) ==
    [id |-> ObjectId, url |-> ObjectURL, archived |-> FALSE, gone |-> FALSE,
     parent |-> req.parent, properties |-> req.properties, icon |-> req.icon]

\* Page.Update as the workspace serves it: the named properties are
\* replaced and every other property keeps its value; an icon is replaced
\* when one is sent
ServedPageUpdate(page, req) ==
    [page EXCEPT !.properties = req.properties @@ @,
                 !.icon = IF req.icon = Nil THEN @ ELSE req.icon,
                 !.archived = IF req.archived THEN TRUE ELSE @]

\* ------------------------------------------- DatabaseEntryResource handlers

\* findTitlePropertyName: the names it can return for a served database (the
\* range over db.Properties stops at the first title column it meets)
findTitlePropertyName(db) ==
    LET titles == {name \in DOMAIN db.properties : db.properties[name].type = "title"} IN
    IF titles = {} THEN {"Name"} ELSE titles

DatabaseGetRequest == [api |-> "Database.Get"]
PageGetRequest == [api |-> "Page.Get"]
PageCreateRequest(parent, properties, icon) ==
    [api |-> "Page.Create", parent |-> parent, properties |-> properties, icon |-> icon]
PageUpdateRequest(properties, icon, archived) ==
    [api |-> "Page.Update", properties |-> properties, icon |-> icon,
     archived |-> archived]

\* Create: dbResp answers findTitlePropertyName's Database.Get, titlePropName
\* is the name it returned, fault is what happens to Page.Create
DatabaseEntryCreate(plan, dbResp, titlePropName, fault) ==
    IF dbResp.err # Null THEN Outcome(Nil, "Error reading database", <<DatabaseGetRequest>>)
    ELSE LET built == buildEntryProperties(plan) IN
         IF built.hasError THEN Outcome(Nil, "Invalid date value", <<DatabaseGetRequest>>)
         ELSE LET properties == (titlePropName :> TitleProperty(plan)) @@ built.props
                  params == PageCreateRequest([type |-> "database_id",
                                        id |-> ValueString(plan.database)],
                                       properties, Nil)
                  page == ServedPageCreate(params)
              IN IF fault # "none"
                 THEN Outcome(Nil, "Error creating database entry", <<DatabaseGetRequest, params>>)
                 ELSE Outcome([plan EXCEPT !.id = Known(normalizeID(page.id)),
                                           !.url = Known(page.url)],
                              Null, <<DatabaseGetRequest, params>>)

\* the value readEntryProperties reads from a served property of the
\* bucket's type
ReadValue(bucket, p) ==
    CASE bucket = "rich_text" -> richTextToPlain(p.rich_text)
      [] bucket = "number" -> p.number
      [] bucket = "checkbox" -> p.checkbox
      [] bucket = "select" -> p.select.name
      [] bucket = "status" -> p.status.name
      [] bucket = "url" -> p.url
      [] bucket = "email" -> p.email
      [] bucket = "phone_number" -> p.phone_number
      [] bucket = "date" -> formatNotionDate(p.date.start)

\* the managed names of a bucket the page answers with a value of the
\* bucket's type (a date only when it has a start)
ReadableKeys(bucket, b, page) ==
    {name \in Keys(b) :
        /\ name \in DOMAIN page.properties
        /\ page.properties[name].type = bucket
        /\ (bucket = "date" => page.properties[name].date # Nil)}

\* a reading that takes every property of the bucket's type the page has
readEntryProperties_EveryProperty(page, state) ==
    [bucket \in Buckets |->
        IF state.buckets[bucket].k = "null" THEN MapNull
        ELSE MapOf([name \in {n \in DOMAIN page.properties :
                                 /\ page.properties[n].type = bucket
                                 /\ (bucket = "date" => page.properties[n].date # Nil)} |->
                       ReadValue(bucket, page.properties[name])])]

\* readEntryProperties: a null bucket stays null, any other bucket is
\* rebuilt from the names it already manages
readEntryProperties(page, state) ==
    [bucket \in Buckets |->
        IF state.buckets[bucket].k = "null" THEN MapNull
        ELSE MapOf([name \in ReadableKeys(bucket, state.buckets[bucket], page) |->
                       ReadValue(bucket, page.properties[name])])]

\* the title properties of a served page; Read takes the first it meets
TitleProperties(page) ==
    {name \in DOMAIN page.properties : page.properties[name].type = "title"}

\* Read: resp answers Page.Get, titleName is the title property the range
\* met first (Null when the page has none)
DatabaseEntryRead(state, resp, titleName) ==
    IF resp.err # Null THEN Outcome(state, "Error reading database entry", <<PageGetRequest>>)
    ELSE LET page == resp.value IN
         IF page.archived THEN Outcome(Nil, Null, <<PageGetRequest>>)
         ELSE Outcome(
                 [id |-> Known(normalizeID(page.id)),
                  url |-> Known(page.url),
                  database |-> IF page.parent.type = "database_id"
                               THEN Known(normalizeID(page.parent.id))
                               ELSE state.database,
                  title |-> IF titleName = Null THEN state.title
                            ELSE Known(richTextToPlain(page.properties[titleName].title)),
                  buckets |-> readEntryProperties(page, state)],
                 Null, <<PageGetRequest>>)

\* Update: dbResp and titlePropName as in Create, fault is what happens to
\* Page.Update, page is the entry as the workspace holds it
DatabaseEntryUpdate(state, plan, dbResp, titlePropName, fault, page) ==
    IF dbResp.err # Null THEN Outcome(state, "Error reading database", <<DatabaseGetRequest>>)
    ELSE LET built == buildEntryProperties(plan) IN
         IF built.hasError THEN Outcome(state, "Invalid date value", <<DatabaseGetRequest>>)
         ELSE LET titled == (titlePropName :> TitleProperty(plan)) @@ built.props
                  properties == clearRemovedProperties(state, plan, titled)
                  params == PageUpdateRequest(properties, Nil, FALSE)
              IN IF fault # "none" \/ page.gone
                 THEN Outcome(state, "Error updating database entry", <<DatabaseGetRequest, params>>)
                 ELSE Outcome([plan EXCEPT !.url = Known(page.url)], Null,
                              <<DatabaseGetRequest, params>>)

\* Delete: the entry is archived by a Page.Update with no properties
DatabaseEntryDelete(state, fault, page) ==
    LET archiveReq == PageUpdateRequest(NoEntries, Nil, TRUE) IN
    IF fault # "none" \/ page.gone
    THEN Outcome(state, "Error archiving database entry", <<archiveReq>>)
    ELSE Outcome(Nil, Null, <<archiveReq>>)

\* --------------------------------------------- a database entry's lifecycle

EntryKeys == {"A", "B"}
\* the values a configuration gives an entry of a bucket (the date bucket
\* holds a date and a text that is no date)
BucketValues(bucket) ==
    CASE bucket = "number" -> <<1>>
      [] bucket = "checkbox" -> <<TRUE>>
      [] bucket = "date" -> <<<<"2", "0", "2", "4", "-", "0", "1", "-", "1", "5">>, <<"x">>>>
      [] OTHER -> <<<<"v">>>>

\* one entry of one bucket of a configuration: the val-th value of the
\* bucket under key
AllEntries ==
    UNION {{[bucket |-> b, key |-> k, val |-> v] :
               k \in EntryKeys, v \in 1..Len(BucketValues(b))} : b \in Buckets}

\* the sets of at most n entries that give a key of a bucket one value
RECURSIVE EntrySetsUpTo(_)
EntrySetsUpTo(n) ==
    IF n = 0 THEN {{}}
    ELSE LET smaller == EntrySetsUpTo(n - 1) IN
         smaller \cup
         UNION {{E \cup {e} : e \in {x \in AllEntries :
                                        \A y \in E : x.bucket = y.bucket => x.key # y.key}}
                : E \in smaller}
EntrySets == EntrySetsUpTo(MaxEntries)

\* the nine buckets holding the entries E, every bucket without an entry
\* being rest
BucketsOf(E, rest) ==
    [b \in Buckets |->
        LET es == {e \in E : e.bucket = b} IN
        IF es = {} THEN rest
        ELSE MapOf([k \in {e.key : e \in es} |->
                       BucketValues(b)[(CHOOSE e \in es : e.key = k).val]])]

\* the buckets of a configuration (a bucket is omitted, empty or filled), and
\* those of a plan, which may also hold an unknown bucket
ConfigBuckets == {BucketsOf(E, rest) : E \in EntrySets, rest \in {MapNull, MapOf(NoEntries)}}
PlanBuckets == ConfigBuckets \cup {BucketsOf(E, MapUnknown) : E \in EntrySets}

EntryTitles == {<<"t">>}
EntryDatabaseId == <<"d", "-", "1">>
\* the parent database: its title column, and a column no entry manages
EntryDatabases ==
    {[id |-> EntryDatabaseId, gone |-> FALSE,
      properties |-> (t :> [id |-> "title", type |-> "title"])
                     @@ ("Z" :> [id |-> "z", type |-> "checkbox"])] : t \in {"Name", "A"}}

\* the columns of the database that a new page gets without being sent
UnsentDefaults(db, properties) ==
    [name \in {n \in DOMAIN db.properties : db.properties[n].type = "checkbox"}
               \ DOMAIN properties |-> [type |-> "checkbox", checkbox |-> FALSE]]

PageGetResponse(remote, fault) ==
    LET r == GetResponse(remote, fault) IN
    IF r.err # Null THEN r ELSE Ok(ViewPage(r.value))

FirstTitle(resp) ==
    IF resp.err # Null THEN {Null}
    ELSE IF TitleProperties(resp.value) = {} THEN {Null}
    ELSE TitleProperties(resp.value)

EntryInit ==
    res \in {[kind |-> "entry", db |-> db, state |-> Nil, remote |-> Nil,
              last |-> NoOp, ops |-> 0] : db \in EntryDatabases}

EntryCreate ==
    /\ res.kind = "entry" /\ res.state = Nil /\ res.ops < MaxEntryOps
    /\ \E buckets \in ConfigBuckets, title \in EntryTitles, dbFault \in Faults,
          fault \in Faults, titlePropName \in findTitlePropertyName(res.db) :
          LET plan == [id |-> StrUnknown, database |-> Known(res.db.id),
                       title |-> Known(title), url |-> StrUnknown, buckets |-> buckets]
              out == DatabaseEntryCreate(plan, GetResponse(res.db, dbFault),
                                         titlePropName, fault)
          IN \E done \in {out} :
                res' = [res EXCEPT
                        !.state = done.state,
                        !.remote = IF done.error # Null THEN @
                                   ELSE LET page == ServedPageCreate(done.sent[2]) IN
                                        [page EXCEPT !.properties =
                                            @ @@ UnsentDefaults(res.db, @)],
                        !.last = Ran("Create", Nil, plan, "none", done),
                        !.ops = @ + 1]
    /\ UNCHANGED <<codec, imp, build>>

EntryRead ==
    /\ res.kind = "entry" /\ res.state # Nil /\ res.ops < MaxEntryOps
    /\ \E fault \in Faults :
          LET resp == PageGetResponse(res.remote, fault) IN
          \E titleName \in FirstTitle(resp) :
              LET out == DatabaseEntryRead(res.state, resp, titleName) IN
              \E done \in {out} :
                    res' = [res EXCEPT !.state = done.state,
                                 !.last = Ran("Read", res.state, Nil, Answer(resp), done),
                                 !.ops = @ + 1]
    /\ UNCHANGED <<codec, imp, build>>

EntryUpdate ==
    /\ res.kind = "entry" /\ res.state # Nil /\ res.ops < MaxEntryOps
    /\ \E buckets \in PlanBuckets, title \in EntryTitles, dbFault \in Faults,
          fault \in Faults, titlePropName \in findTitlePropertyName(res.db) :
          LET plan == [res.state EXCEPT !.title = Known(title), !.buckets = buckets]
              out == DatabaseEntryUpdate(res.state, plan, GetResponse(res.db, dbFault),
                                         titlePropName, fault, res.remote)
          IN \E done \in {out} :
                res' = [res EXCEPT
                        !.state = done.state,
                        !.remote = IF done.error # Null THEN @
                                   ELSE ServedPageUpdate(@, done.sent[2]),
                        !.last = Ran("Update", res.state, plan, "none", done),
                        !.ops = @ + 1]
    /\ UNCHANGED <<codec, imp, build>>

EntryDelete ==
    /\ res.kind = "entry" /\ res.state # Nil /\ res.ops < MaxEntryOps
    /\ \E fault \in Faults :
          LET out == DatabaseEntryDelete(res.state, fault, res.remote) IN
          \E done \in {out} :
                res' = [res EXCEPT
                     !.state = done.state,
                     !.remote = IF done.error # Null THEN @
                                ELSE ServedPageUpdate(@, done.sent[1]),
                     !.last = Ran("Delete", res.state, Nil, "none", done),
                     !.ops = @ + 1]
    /\ UNCHANGED <<codec, imp, build>>

\* somebody archives the object in the workspace, behind Terraform's back
ArchiveRemotely ==
    /\ res.kind \in {"entry", "page", "block", "database"}
    /\ res.remote # Nil /\ ~res.remote.archived /\ ~res.remote.gone
    /\ res' = [res EXCEPT !.remote.archived = TRUE]
    /\ UNCHANGED <<codec, imp, build>>

\* the object leaves the workspace for good (purged, or access revoked):
\* every call on it answers 404
PurgeRemotely ==
    /\ res.kind \in {"entry", "page", "block", "database",
                     "property_basic", "property_select", "property_number"}
    /\ res.remote # Nil /\ ~res.remote.gone
    /\ res' = [res EXCEPT !.remote.gone = TRUE]
    /\ UNCHANGED <<codec, imp, build>>

EntryNext ==
    EntryCreate \/ EntryRead \/ EntryUpdate \/ EntryDelete \/ ArchiveRemotely
    \/ PurgeRemotely

SpecEntryInit == codec = Off /\ imp = Off /\ build = Off /\ EntryInit

SpecEntry == SpecEntryInit /\ [][EntryNext]_vars

\* an Update of the entry that got as far as sending its Page.Update
EntryUpdateSent ==
    res.kind = "entry" /\ res.last.op = "Update" /\ Len(res.last.sent) = 2

\* the names a bucket of a model holds (none for a null or unknown bucket)
ManagedKeys(model, bucket) ==
    IF model.buckets[bucket].k = "known" THEN DOMAIN model.buckets[bucket].m ELSE {}
\* the buckets name was in before the Update and is not in by the plan
RemovedFrom(name) ==
    {b \in Buckets : name \in ManagedKeys(res.last.prior, b)
                     /\ name \notin ManagedKeys(res.last.plan, b)}
PropertyNames == EntryKeys \cup {"Name", "Z"}

\* C4: in the request of an entry Update, a name that left one of the nine
\* buckets (it is in the prior state's bucket and not in the plan's, a null
\* or unknown plan bucket holding nothing) carries that bucket's empty
\* value, and every other name carries exactly what the request held
\* before clearRemovedProperties ran, or stays absent.
C4_ClearsExactlyRemovedKeys ==
    EntryUpdateSent =>
        LET sentProps == res.last.sent[2].properties
            titleName == CHOOSE t \in findTitlePropertyName(res.db) : TRUE
            before == (titleName :> TitleProperty(res.last.plan))
                      @@ buildEntryProperties(res.last.plan).props
        IN \A name \in PropertyNames :
              IF RemovedFrom(name) # {}
              THEN /\ name \in DOMAIN sentProps
                   /\ \E b \in RemovedFrom(name) :
                         /\ sentProps[name].type = b
                         /\ sentProps[name] = ClearedProperty(b)
              ELSE /\ (name \in DOMAIN sentProps) <=> (name \in DOMAIN before)
                   /\ name \in DOMAIN before =>
                         /\ sentProps[name].type = before[name].type
                         /\ sentProps[name] = before[name]

\* an Update whose plan leaves a bucket unknown that held "A" before, while
\* "B" joins another bucket: "A" is cleared, "B" is sent as planned
C4_Witness ==
    /\ EntryUpdateSent /\ res.last.error = Null
    /\ \E b \in Buckets :
          /\ "A" \in ManagedKeys(res.last.prior, b)
          /\ res.last.plan.buckets[b] = MapUnknown
          /\ res.last.sent[2].properties["A"] = ClearedProperty(b)
    /\ \E b \in Buckets : "B" \in ManagedKeys(res.last.plan, b)

\* C10: the property names in the request of an entry Update are the title
\* column's name, the keys of the plan's buckets and the keys that left a
\* bucket since the prior state, and no other; the column no bucket ever
\* held keeps its value in the workspace.
C10_UpdateSendsManagedNamesOnly ==
    EntryUpdateSent =>
        /\ DOMAIN res.last.sent[2].properties =
              findTitlePropertyName(res.db)
              \cup UNION {ManagedKeys(res.last.plan, b) : b \in Buckets}
              \cup {name \in PropertyNames : RemovedFrom(name) # {}}
        /\ "Z" \notin DOMAIN res.last.sent[2].properties
        /\ res.remote.properties["Z"] = [type |-> "checkbox", checkbox |-> FALSE]

\* an Update that sends all three sorts of name: the title column "Name",
\* the planned key "B" and the removed key "A"
C10_Witness ==
    /\ EntryUpdateSent /\ res.last.error = Null
    /\ DOMAIN res.last.sent[2].properties = {"Name", "A", "B"}
    /\ RemovedFrom("A") # {} /\ RemovedFrom("B") = {}
    /\ \E b \in Buckets : "B" \in ManagedKeys(res.last.plan, b)

\* --------------------------------------------------- PageResource handlers

\* params.Icon: an emoji icon when the plan's icon is not the empty string
PageIcon(plan) ==
    IF ValueString(plan.icon) # <<>>
    THEN [type |-> "emoji", emoji |-> ValueString(plan.icon)] ELSE Nil
\* the icon attribute read from a served object: its emoji, or ""
IconString(icon) == IF icon # Nil THEN Known(icon.emoji) ELSE Known(<<>>)

PageResourceCreate(plan, fault) ==
    LET params == PageCreateRequest([type |-> "page_id",
                                     id |-> ValueString(plan.parent_page_id)],
                                    "title" :> TitleProperty(plan), PageIcon(plan))
        page == ServedPageCreate(params)
    IN IF fault # "none" THEN Outcome(Nil, "Error creating page", <<params>>)
       ELSE Outcome([plan EXCEPT !.id = Known(normalizeID(page.id)),
                                 !.url = Known(page.url),
                                 !.icon = IconString(page.icon)],
                    Null, <<params>>)

\* PageResource.Read without the test of page.Archived
PageResourceRead_IgnoreArchived(state, resp) ==
    IF resp.err # Null THEN Outcome(state, "Error reading page", <<PageGetRequest>>)
    ELSE LET page == resp.value IN
         Outcome([id |-> Known(normalizeID(page.id)),
                  url |-> Known(page.url),
                  parent_page_id |-> IF page.parent.type = "page_id"
                                     THEN Known(normalizeID(page.parent.id))
                                     ELSE state.parent_page_id,
                  title |-> IF "title" \in DOMAIN page.properties
                               /\ page.properties["title"].type = "title"
                            THEN Known(richTextToPlain(page.properties["title"].title))
                            ELSE state.title,
                  icon |-> IconString(page.icon)],
                 Null, <<PageGetRequest>>)

PageResourceRead(state, resp) ==
    IF resp.err # Null THEN Outcome(state, "Error reading page", <<PageGetRequest>>)
    ELSE LET page == resp.value IN
         IF page.archived THEN Outcome(Nil, Null, <<PageGetRequest>>)
         ELSE Outcome([id |-> Known(normalizeID(page.id)),
                       url |-> Known(page.url),
                       parent_page_id |-> IF page.parent.type = "page_id"
                                          THEN Known(normalizeID(page.parent.id))
                                          ELSE state.parent_page_id,
                       title |-> IF "title" \in DOMAIN page.properties
                                    /\ page.properties["title"].type = "title"
                                 THEN Known(richTextToPlain(page.properties["title"].title))
                                 ELSE state.title,
                       icon |-> IconString(page.icon)],
                      Null, <<PageGetRequest>>)

\* Update: page is the page as the workspace holds it
PageResourceUpdate(plan, fault, page) ==
    LET params == PageUpdateRequest("title" :> TitleProperty(plan), PageIcon(plan), FALSE)
        served == ServedPageUpdate(page, params)
    IN IF fault # "none" \/ page.gone
       THEN Outcome(Nil, "Error updating page", <<params>>)
       ELSE Outcome([plan EXCEPT !.url = Known(served.url),
                                 !.icon = IconString(served.icon)],
                    Null, <<params>>)

\* Delete: the page is archived
\* a Delete whose request does not set the archived flag
PageResourceDelete_FlagUnset(state, fault, page) ==
    LET params == PageUpdateRequest(NoEntries, Nil, FALSE) IN
    IF fault # "none" \/ page.gone THEN Outcome(state, "Error archiving page", <<params>>)
    ELSE Outcome(Nil, Null, <<params>>)

PageResourceDelete(state, fault, page) ==
    LET params == PageUpdateRequest(NoEntries, Nil, TRUE) IN
    IF fault # "none" \/ page.gone THEN Outcome(state, "Error archiving page", <<params>>)
    ELSE Outcome(Nil, Null, <<params>>)

\* ------------------------------------------------------- a page's lifecycle

PageTitles == {<<"t">>, <<"n">>}
PageIcons == {<<>>, <<"i">>}

PageInit ==
    res = [kind |-> "page", state |-> Nil, remote |-> Nil, last |-> NoOp, ops |-> 0]

PageCreate ==
    /\ res.kind = "page" /\ res.state = Nil /\ res.ops < MaxOps
    /\ \E title \in PageTitles, icon \in PageIcons, fault \in Faults :
          LET plan == [id |-> StrUnknown, parent_page_id |-> Known(ParentId),
                       title |-> Known(title), url |-> StrUnknown, icon |-> Known(icon)]
              out == PageResourceCreate(plan, fault)
          IN \E done \in {out} :
                res' = [res EXCEPT
                        !.state = done.state,
                        !.remote = IF done.error # Null THEN @
                                   ELSE ServedPageCreate(done.sent[1]),
                        !.last = Ran("Create", Nil, plan, "none", done),
                        !.ops = @ + 1]
    /\ UNCHANGED <<codec, imp, build>>

PageRead ==
    /\ res.kind = "page" /\ res.state # Nil /\ res.ops < MaxOps
    /\ \E fault \in Faults :
          LET resp == PageGetResponse(res.remote, fault)
              out == PageResourceRead(res.state, resp)
          IN \E done \in {out} :
                res' = [res EXCEPT !.state = done.state,
                                !.last = Ran("Read", res.state, Nil, Answer(resp), done),
                                !.ops = @ + 1]
    /\ UNCHANGED <<codec, imp, build>>

PageUpdate ==
    /\ res.kind = "page" /\ res.state # Nil /\ res.ops < MaxOps
    /\ \E title \in PageTitles, icon \in PageIcons, fault \in Faults :
          LET plan == [res.state EXCEPT !.title = Known(title), !.icon = Known(icon)]
              out == PageResourceUpdate(plan, fault, res.remote)
          IN \E done \in {out} :
                res' = [res EXCEPT
                        !.state = IF done.error # Null THEN @ ELSE done.state,
                        !.remote = IF done.error # Null THEN @
                                   ELSE ServedPageUpdate(@, done.sent[1]),
                        !.last = Ran("Update", res.state, plan, "none", done),
                        !.ops = @ + 1]
    /\ UNCHANGED <<codec, imp, build>>

PageDelete ==
    /\ res.kind = "page" /\ res.state # Nil /\ res.ops < MaxOps
    /\ \E fault \in Faults :
          LET out == PageResourceDelete(res.state, fault, res.remote) IN
          \E done \in {out} :
                res' = [res EXCEPT
                     !.state = done.state,
                     !.remote = IF done.error # Null THEN @
                                ELSE ServedPageUpdate(@, done.sent[1]),
                     !.last = Ran("Delete", res.state, Nil, "none", done),
                     !.ops = @ + 1]
    /\ UNCHANGED <<codec, imp, build>>

\* somebody edits the page's title in the workspace
RetitleRemotely ==
    /\ res.kind = "page"
    /\ res.remote # Nil /\ ~res.remote.archived /\ ~res.remote.gone
    /\ \E title \in PageTitles :
          /\ res.remote.properties["title"].title # plainToRichText(title)
          /\ res' = [res EXCEPT !.remote.properties["title"].title = plainToRichText(title)]
    /\ UNCHANGED <<codec, imp, build>>

PageNext ==
    PageCreate \/ PageRead \/ PageUpdate \/ PageDelete \/ RetitleRemotely
    \/ ArchiveRemotely \/ PurgeRemotely

SpecPageInit == codec = Off /\ imp = Off /\ build = Off /\ PageInit

SpecPage == SpecPageInit /\ [][PageNext]_vars

\* ----------------------------------------------- DatabaseResource handlers

ValueName(x) == IF x.k = "known" THEN x.v ELSE ""
TitlePropertyConfig == [type |-> "title"]
DatabaseCreateRequest(parent, title, properties, isInline) ==
    [api |-> "Database.Create", parent |-> parent, title |-> title,
     properties |-> properties, is_inline |-> isInline]
DatabaseUpdateRequest(title, properties) ==
    [api |-> "Database.Update", title |-> title, properties |-> properties]

\* the IDs the workspace hands out to the columns it creates
ColumnIds == <<"c1", "c2", "c3", "c4">>

\* Database.Create as the workspace serves it
ServedDatabaseCreate(req) ==
    [id |-> ObjectId, url |-> ObjectURL, archived |-> FALSE, gone |-> FALSE,
     parent |-> req.parent, title |-> req.title, description |-> <<>>, icon |-> Nil,
     is_inline |-> req.is_inline, made |-> 0,
     properties |-> [name \in DOMAIN req.properties |->
                        [id |-> "title", type |-> req.properties[name].type,
                         config |-> req.properties[name]]]]

\* Database.Update as the workspace serves it: a title that is sent
\* replaces the title; a column sent as nil is dropped, a column sent under
\* a name the database has is reconfigured and keeps its ID, a column sent
\* under a new name is created
ServedDatabaseUpdate(db, req) ==
    LET dropped == {n \in DOMAIN req.properties : req.properties[n] = Nil}
        kept == (DOMAIN db.properties \cup DOMAIN req.properties) \ dropped
        fresh == DOMAIN req.properties \ (DOMAIN db.properties \cup dropped)
    IN [db EXCEPT
           !.title = IF req.title = <<>> THEN @ ELSE req.title,
           !.made = @ + Cardinality(fresh),
           !.properties =
               [n \in kept |->
                   IF n \notin DOMAIN req.properties THEN db.properties[n]
                   ELSE [id |-> IF n \in DOMAIN db.properties THEN db.properties[n].id
                                ELSE ColumnIds[db.made + 1],
                         type |-> req.properties[n].type,
                         config |-> req.properties[n]]]]

\* a database as the API returns it
ViewDatabase(db) ==
    [db EXCEPT !.title = ServerEcho(@), !.description = ServerEcho(@)]
DatabaseGetResponse(remote, fault) ==
    LET r == GetResponse(remote, fault) IN
    IF r.err # Null THEN r ELSE Ok(ViewDatabase(r.value))

\* the title columns of a served database; the handlers take the first the
\* range over db.Properties meets
TitleColumns(db) == {name \in DOMAIN db.properties : db.properties[name].type = "title"}

DatabaseResourceCreate(plan, fault) ==
    LET params == DatabaseCreateRequest(
                      [type |-> "page_id", id |-> ValueString(plan.parent)],
                      plainToRichText(ValueString(plan.title)),
                      ValueName(plan.title_column_title) :> TitlePropertyConfig,
                      ValueBool(plan.is_inline))
        db == ViewDatabase(ServedDatabaseCreate(params))
    IN IF fault # "none" THEN Outcome(Nil, "Error creating database", <<params>>)
       ELSE Outcome(
               [plan EXCEPT
                   !.id = Known(normalizeID(db.id)),
                   !.url = Known(db.url),
                   !.is_inline = Known(db.is_inline),
                   !.description = Known(richTextToPlain(db.description)),
                   !.icon = IconString(db.icon),
                   !.title_column_id =
                       IF ValueName(plan.title_column_title) \in DOMAIN db.properties
                       THEN Known(db.properties[ValueName(plan.title_column_title)].id)
                       ELSE @],
               Null, <<params>>)

\* Read: titleColumn is the title column the range met first (Null when
\* the database has none)
DatabaseResourceRead(state, resp, titleColumn) ==
    IF resp.err # Null THEN Outcome(state, "Error reading database", <<DatabaseGetRequest>>)
    ELSE LET db == resp.value IN
         IF db.archived THEN Outcome(Nil, Null, <<DatabaseGetRequest>>)
         ELSE Outcome(
                 [id |-> Known(normalizeID(db.id)),
                  title |-> Known(richTextToPlain(db.title)),
                  url |-> Known(db.url),
                  is_inline |-> Known(db.is_inline),
                  description |-> Known(richTextToPlain(db.description)),
                  icon |-> IconString(db.icon),
                  parent |-> IF db.parent.type = "page_id"
                             THEN Known(normalizeID(db.parent.id)) ELSE state.parent,
                  title_column_title |-> IF titleColumn = Null THEN state.title_column_title
                                         ELSE Known(titleColumn),
                  title_column_id |-> IF titleColumn = Null THEN state.title_column_id
                                      ELSE Known(db.properties[titleColumn].id)],
                 Null, <<DatabaseGetRequest>>)

\* Update: db is the database as the workspace holds it; a changed title
\* column name sends the column under the name the state knows
\* an Update that sends the title column under its new name
DatabaseResourceUpdate_KeyedByNewName(state, plan, fault, db) ==
    LET params == DatabaseUpdateRequest(
                      plainToRichText(ValueString(plan.title)),
                      IF ValueName(plan.title_column_title) # ValueName(state.title_column_title)
                      THEN ValueName(plan.title_column_title) :> TitlePropertyConfig
                      ELSE NoEntries)
        served == ViewDatabase(ServedDatabaseUpdate(db, params))
        titles == TitleColumns(served)
    IN IF fault # "none" \/ db.gone
       THEN {Outcome(state, "Error updating database", <<params>>)}
       ELSE {Outcome(
                [plan EXCEPT
                    !.url = Known(served.url),
                    !.is_inline = Known(served.is_inline),
                    !.description = Known(richTextToPlain(served.description)),
                    !.icon = IconString(served.icon),
                    !.title_column_title = IF titleColumn = Null THEN @ ELSE Known(titleColumn),
                    !.title_column_id = IF titleColumn = Null THEN @
                                        ELSE Known(served.properties[titleColumn].id)],
                Null, <<params>>) :
             titleColumn \in IF titles = {} THEN {Null} ELSE titles}

DatabaseResourceUpdate(state, plan, fault, db) ==
    LET params == DatabaseUpdateRequest(
                      plainToRichText(ValueString(plan.title)),
                      IF ValueName(plan.title_column_title) # ValueName(state.title_column_title)
                      THEN ValueName(state.title_column_title) :> TitlePropertyConfig
                      ELSE NoEntries)
        served == ViewDatabase(ServedDatabaseUpdate(db, params))
        titles == TitleColumns(served)
    IN IF fault # "none" \/ db.gone
       THEN {Outcome(state, "Error updating database", <<params>>)}
       ELSE {Outcome(
                [plan EXCEPT
                    !.url = Known(served.url),
                    !.is_inline = Known(served.is_inline),
                    !.description = Known(richTextToPlain(served.description)),
                    !.icon = IconString(served.icon),
                    !.title_column_title = IF titleColumn = Null THEN @ ELSE Known(titleColumn),
                    !.title_column_id = IF titleColumn = Null THEN @
                                        ELSE Known(served.properties[titleColumn].id)],
                Null, <<params>>) :
             titleColumn \in IF titles = {} THEN {Null} ELSE titles}

\* Delete: the database is archived through Page.Update
DatabaseResourceDelete(state, fault, db) ==
    LET params == PageUpdateRequest(NoEntries, Nil, TRUE) IN
    IF fault # "none" \/ db.gone THEN Outcome(state, "Error archiving database", <<params>>)
    ELSE Outcome(Nil, Null, <<params>>)

\* ---------------------------------------------- DatabaseResource lifecycle

DatabaseTitles == {<<"t">>, <<"n">>}
ColumnTitles == {"Name", "Task"}

DatabaseInit ==
    res = [kind |-> "database", state |-> Nil, remote |-> Nil, last |-> NoOp, ops |-> 0]

DatabaseCreate ==
    /\ res.kind = "database" /\ res.state = Nil /\ res.ops < MaxOps
    /\ \E title \in DatabaseTitles, column \in ColumnTitles, fault \in Faults :
          LET plan == [id |-> StrUnknown, parent |-> Known(ParentId),
                       title |-> Known(title), title_column_title |-> Known(column),
                       title_column_id |-> StrUnknown, url |-> StrUnknown,
                       is_inline |-> Known(FALSE), description |-> StrUnknown,
                       icon |-> StrUnknown]
              out == DatabaseResourceCreate(plan, fault)
          IN \E done \in {out} :
                res' = [res EXCEPT
                        !.state = done.state,
                        !.remote = IF done.error # Null THEN @
                                   ELSE ServedDatabaseCreate(done.sent[1]),
                        !.last = Ran("Create", Nil, plan, "none", done),
                        !.ops = @ + 1]
    /\ UNCHANGED <<codec, imp, build>>

DatabaseRead ==
    /\ res.kind = "database" /\ res.state # Nil /\ res.ops < MaxOps
    /\ \E fault \in Faults :
          LET resp == DatabaseGetResponse(res.remote, fault)
              titles == IF resp.err # Null THEN {} ELSE TitleColumns(resp.value)
          IN \E titleColumn \in IF titles = {} THEN {Null} ELSE titles :
                LET out == DatabaseResourceRead(res.state, resp, titleColumn) IN
                \E done \in {out} :
                      res' = [res EXCEPT !.state = done.state,
                                   !.last = Ran("Read", res.state, Nil, Answer(resp), done),
                                   !.ops = @ + 1]
    /\ UNCHANGED <<codec, imp, build>>

DatabaseUpdate ==
    /\ res.kind = "database" /\ res.state # Nil /\ res.ops < MaxOps
    /\ \E title \in DatabaseTitles, column \in ColumnTitles, fault \in Faults :
          LET plan == [res.state EXCEPT !.title = Known(title),
                                        !.title_column_title = Known(column)]
          IN \E out \in DatabaseResourceUpdate(res.state, plan, fault, res.remote) :
                res' = [res EXCEPT
                           !.state = out.state,
                           !.remote = IF out.error # Null THEN @
                                      ELSE ServedDatabaseUpdate(@, out.sent[1]),
                           !.last = Ran("Update", res.state, plan, "none", out),
                           !.ops = @ + 1]
    /\ UNCHANGED <<codec, imp, build>>

DatabaseDelete ==
    /\ res.kind = "database" /\ res.state # Nil /\ res.ops < MaxOps
    /\ \E fault \in Faults :
          LET out == DatabaseResourceDelete(res.state, fault, res.remote) IN
          \E done \in {out} :
                res' = [res EXCEPT
                     !.state = done.state,
                     !.remote = IF done.error # Null THEN @
                                ELSE [@ EXCEPT !.archived = TRUE],
                     !.last = Ran("Delete", res.state, Nil, "none", done),
                     !.ops = @ + 1]
    /\ UNCHANGED <<codec, imp, build>>

\* somebody renames the title column in the workspace
RenameTitleColumnRemotely ==
    /\ res.kind = "database"
    /\ res.remote # Nil /\ ~res.remote.archived /\ ~res.remote.gone
    /\ \E old \in TitleColumns(res.remote), new \in ColumnTitles \ DOMAIN res.remote.properties :
          res' = [res EXCEPT !.remote.properties =
                     [n \in (DOMAIN @ \ {old}) \cup {new} |->
                         IF n = new THEN @[old] ELSE @[n]]]
    /\ UNCHANGED <<codec, imp, build>>

DatabaseNext ==
    DatabaseCreate \/ DatabaseRead \/ DatabaseUpdate \/ DatabaseDelete
    \/ RenameTitleColumnRemotely \/ ArchiveRemotely \/ PurgeRemotely

SpecDatabaseInit == codec = Off /\ imp = Off /\ build = Off /\ DatabaseInit

SpecDatabase == SpecDatabaseInit /\ [][DatabaseNext]_vars

\* -------------------------------------------------- BlockResource handlers

BlockAppendRequest(parentID, children, after) ==
    [api |-> "Block.AppendChildren", parent |-> parentID, children |-> children,
     after |-> after]
BlockGetRequest == [api |-> "Block.Get"]
BlockUpdateRequest(updateReq) == [api |-> "Block.Update", update |-> updateReq]
BlockDeleteRequest == [api |-> "Block.Delete"]

\* Block.AppendChildren as the workspace serves it: the block is placed
\* after the named sibling (position), which no later answer reports
ServedBlockAppend(req) ==
    [id |-> ObjectId, archived |-> FALSE, gone |-> FALSE,
     parent |-> [type |-> "page_id", id |-> req.parent],
     type |-> req.children[1].type, has_children |-> FALSE,
     body |-> req.children[1].body, position |-> req.after]

\* Block.Update as the workspace serves it: the fields sent replace the
\* block's; an icon that is not sent leaves the icon
ServedBlockUpdate(block, req) ==
    [block EXCEPT !.body =
        [f \in DOMAIN @ |->
            IF f \notin DOMAIN req.update.body THEN @[f]
            ELSE IF f = "icon" /\ req.update.body[f] = Nil THEN @[f]
            ELSE req.update.body[f]]]

\* a block as the API returns it: without its position
ViewBlock(block) ==
    [id |-> block.id, archived |-> block.archived, parent |-> block.parent,
     type |-> block.type, has_children |-> block.has_children,
     body |-> [f \in DOMAIN block.body |->
                  IF f \in {"rich_text", "caption"} THEN ServerEcho(block.body[f])
                  ELSE block.body[f]]]
BlockGetResponse(remote, fault) ==
    LET r == GetResponse(remote, fault) IN
    IF r.err # Null THEN r ELSE Ok(ViewBlock(r.value))

\* a population that fills every content attribute from the answer and
\* clears the ones the answer does not carry
readBlockIntoState_ClearsOthers(block, state) ==
    LET b == block.body IN
    [f \in DOMAIN state |->
        CASE f = "id" -> Known(normalizeID(block.id))
          [] f = "has_children" -> Known(block.has_children)
          [] f = "type" -> Known(block.type)
          [] f = "parent_id" -> IF block.parent.type \in {"page_id", "block_id"}
                                THEN Known(normalizeID(block.parent.id)) ELSE state[f]
          [] f = "after" -> state[f]
          [] f \in {"rich_text", "caption"} ->
               IF f \in DOMAIN b THEN Known(richTextToPlain(b[f])) ELSE StrNull
          [] f = "icon" ->
               IF "icon" \notin DOMAIN b THEN StrNull
               ELSE IF b.icon # Nil THEN Known(b.icon.emoji) ELSE StrNull
          [] f = "url" ->
               IF "url" \in DOMAIN b THEN Known(b.url)
               ELSE IF "external" \in DOMAIN b THEN Known(b.external.url) ELSE StrNull
          [] f = "synced_from" ->
               IF "synced_from" \notin DOMAIN b THEN StrNull
               ELSE IF b.synced_from # Nil
                    THEN Known(normalizeID(b.synced_from.block_id)) ELSE StrNull
          [] OTHER -> IF f \in DOMAIN b THEN Known(b[f]) ELSE StrNull]

\* the attributes readBlockIntoState overwrites for a block of each type
readBlockIntoState(block, state) ==
    LET b == block.body
        base == [state EXCEPT
                    !.id = Known(normalizeID(block.id)),
                    !.has_children = Known(block.has_children),
                    !.type = Known(block.type),
                    !.parent_id = IF block.parent.type \in {"page_id", "block_id"}
                                  THEN Known(normalizeID(block.parent.id)) ELSE @]
    IN CASE block.type \in TextColorKinds ->
              [base EXCEPT !.rich_text = Known(richTextToPlain(b.rich_text)),
                           !.color = Known(b.color)]
         [] block.type \in HeadingKinds ->
              [base EXCEPT !.rich_text = Known(richTextToPlain(b.rich_text)),
                           !.color = Known(b.color),
                           !.is_toggleable = Known(b.is_toggleable)]
         [] block.type = "to_do" ->
              [base EXCEPT !.rich_text = Known(richTextToPlain(b.rich_text)),
                           !.checked = Known(b.checked),
                           !.color = Known(b.color)]
         [] block.type = "callout" ->
              [base EXCEPT !.rich_text = Known(richTextToPlain(b.rich_text)),
                           !.color = Known(b.color),
                           !.icon = IF b.icon # Nil THEN Known(b.icon.emoji) ELSE @]
         [] block.type = "code" ->
              [base EXCEPT !.rich_text = Known(richTextToPlain(b.rich_text)),
                           !.language = Known(b.language),
                           !.caption = Known(richTextToPlain(b.caption))]
         [] block.type = "equation" -> [base EXCEPT !.expression = Known(b.expression)]
         [] block.type = "table_of_contents" -> [base EXCEPT !.color = Known(b.color)]
         [] block.type = "bookmark" ->
              [base EXCEPT !.url = Known(b.url),
                           !.caption = Known(richTextToPlain(b.caption))]
         [] block.type = "embed" -> [base EXCEPT !.url = Known(b.url)]
         [] block.type = "image" ->
              [base EXCEPT !.url = Known(b.external.url),
                           !.caption = Known(richTextToPlain(b.caption))]
         [] block.type = "synced_block" ->
              [base EXCEPT !.synced_from =
                  IF b.synced_from # Nil THEN Known(normalizeID(b.synced_from.block_id))
                  ELSE @]
         [] OTHER -> base

\* Create: results is what AppendChildren returned (its Results list)
BlockResourceCreate(plan, fault, results) ==
    LET built == buildBlockForCreate(plan)
        appendReq == BlockAppendRequest(
                         ValueString(plan.parent_id), <<built.value>>,
                         IF ~IsNull(plan.after) /\ ~IsUnknown(plan.after)
                         THEN ValueString(plan.after) ELSE <<>>)
    IN IF built.err # Null THEN Outcome(Nil, "Error building block", <<>>)
       ELSE IF fault # "none" THEN Outcome(Nil, "Error creating block", <<appendReq>>)
       ELSE IF Len(results) = 0 THEN Outcome(Nil, "Error creating block", <<appendReq>>)
       ELSE Outcome(readBlockIntoState(results[1], plan), Null, <<appendReq>>)

\* a Read that takes the insertion point from the answer, which has none
BlockResourceRead_AfterFromAnswer(state, resp) ==
    IF resp.err # Null THEN Outcome(state, "Error reading block", <<BlockGetRequest>>)
    ELSE IF resp.value.archived THEN Outcome(Nil, Null, <<BlockGetRequest>>)
    ELSE Outcome([readBlockIntoState(resp.value, state) EXCEPT !.after = StrNull],
                 Null, <<BlockGetRequest>>)

\* a Read that stores what the answer reports as the source, null when it
\* reports none
BlockResourceRead_SourceFromAnswer(state, resp) ==
    IF resp.err # Null THEN Outcome(state, "Error reading block", <<BlockGetRequest>>)
    ELSE IF resp.value.archived THEN Outcome(Nil, Null, <<BlockGetRequest>>)
    ELSE LET read == readBlockIntoState(resp.value, [state EXCEPT !.synced_from = StrNull])
         IN Outcome([read EXCEPT !.after = state.after], Null, <<BlockGetRequest>>)

BlockResourceRead(state, resp) ==
    IF resp.err # Null THEN Outcome(state, "Error reading block", <<BlockGetRequest>>)
    ELSE IF resp.value.archived THEN Outcome(Nil, Null, <<BlockGetRequest>>)
    ELSE LET after == state.after
             syncedFrom == state.synced_from
             read == readBlockIntoState(resp.value, state)
         IN Outcome(
               [read EXCEPT
                   !.after = after,
                   !.synced_from = IF IsNull(@) \/ IsUnknown(@) THEN syncedFrom ELSE @],
               Null, <<BlockGetRequest>>)

\* an Update that sends a request for every kind of the enumeration
BlockResourceUpdate_EveryKindSent(state, plan, fault, block) ==
    LET built == buildBlockUpdateRequest_NoImmutableCase(plan)
        req == BlockUpdateRequest(built.value)
    IN IF built.err # Null THEN Outcome(state, "Error building block update", <<>>)
       ELSE IF fault # "none" \/ block.gone \/ block.archived
       THEN Outcome(state, "Error updating block", <<req>>)
       ELSE Outcome(readBlockIntoState(ViewBlock(ServedBlockUpdate(block, req)), plan),
                    Null, <<req>>)

\* Update: block is the block as the workspace holds it
BlockResourceUpdate(state, plan, fault, block) ==
    LET built == buildBlockUpdateRequest(plan)
        req == BlockUpdateRequest(built.value)
    IN IF built.err # Null THEN Outcome(state, "Error building block update", <<>>)
       ELSE IF fault # "none" \/ block.gone \/ block.archived
       THEN Outcome(state, "Error updating block", <<req>>)
       ELSE LET after == plan.after
                syncedFrom == plan.synced_from
                read == readBlockIntoState(ViewBlock(ServedBlockUpdate(block, req)), plan)
            IN Outcome(
                  [read EXCEPT
                      !.after = after,
                      !.synced_from = IF IsNull(@) \/ IsUnknown(@) THEN syncedFrom ELSE @],
                  Null, <<req>>)

BlockResourceDelete(state, fault, block) ==
    IF fault # "none" \/ block.gone THEN Outcome(state, "Error deleting block", <<BlockDeleteRequest>>)
    ELSE Outcome(Nil, Null, <<BlockDeleteRequest>>)

\* ------------------------------------------------- BlockResource lifecycle

SiblingId == <<"s", "-", "1">>
BlockAfters == {StrNull, Known(SiblingId)}
BlockTexts == {<<>>, <<"a">>}
BlockIcons == {<<>>, <<"i">>}
BlockSources == {StrNull, Known(<<"b", "-", "1">>)}

\* the content attributes a configuration may set; the others keep their
\* schema defaults
BlockColors == {<<>>, <<"r", "e", "d">>}
BlockContents ==
    [rich_text : {Known(v) : v \in BlockTexts}, icon : {Known(v) : v \in BlockIcons},
     caption : {Known(v) : v \in BlockTexts}, color : {Known(v) : v \in BlockColors}]

\* the kinds the lifecycle is run for: one of each shape readBlockIntoState
\* tells apart, and every kind that takes no update
LifecycleKinds ==
    {"paragraph", "heading_1", "to_do", "callout", "code", "equation", "bookmark"}
    \cup ImmutableKinds
\* what a new block is configured with
NewContent ==
    [rich_text |-> Known(<<"a">>), icon |-> Known(<<>>), caption |-> Known(<<>>),
     color |-> Known(<<>>)]

BlockPlan(type, after, source, content) ==
    [id |-> StrUnknown, parent_id |-> Known(ParentId), type |-> Known(type),
     after |-> after, has_children |-> StrUnknown,
     rich_text |-> content.rich_text, color |-> content.color,
     is_toggleable |-> Known(FALSE), checked |-> Known(FALSE), icon |-> content.icon,
     language |-> Known(<<>>), caption |-> content.caption, url |-> Known(<<"u">>),
     expression |-> Known(<<>>), synced_from |-> source]

\* createdWith is the plan of the Create that made the tracked block
BlockInit ==
    res = [kind |-> "block", state |-> Nil, remote |-> Nil, last |-> NoOp, ops |-> 0,
           createdWith |-> Nil]

BlockCreate ==
    /\ res.kind = "block" /\ res.state = Nil /\ res.ops < MaxOps
    /\ \E type \in LifecycleKinds, after \in BlockAfters, fault \in Faults,
          source \in BlockSources, served \in BOOLEAN :
          /\ type \notin {"synced_block", "paragraph"} => source = StrNull
          /\ LET plan == BlockPlan(type, after, source, NewContent)
                 built == buildBlockForCreate(plan)
                 appended == ServedBlockAppend(
                                 BlockAppendRequest(ValueString(plan.parent_id),
                                                    <<built.value>>, ValueString(plan.after)))
                 results == IF served THEN <<ViewBlock(appended)>> ELSE <<>>
                 out == BlockResourceCreate(plan, fault, results)
             IN /\ fault # "none" => served
                /\ \E done \in {out} :
                      res' = [res EXCEPT
                              !.state = done.state,
                              !.remote = IF done.error # Null THEN @ ELSE appended,
                              !.createdWith = IF done.error # Null THEN @ ELSE plan,
                              !.last = Ran("Create", Nil, plan, "none", done),
                              !.ops = @ + 1]
    /\ UNCHANGED <<codec, imp, build>>

BlockRead ==
    /\ res.kind = "block" /\ res.state # Nil /\ res.ops < MaxOps
    /\ \E fault \in Faults :
          LET resp == BlockGetResponse(res.remote, fault)
              out == BlockResourceRead(res.state, resp)
          IN \E done \in {out} :
                res' = [res EXCEPT !.state = done.state,
                                !.last = Ran("Read", res.state, Nil, Answer(resp), done),
                                !.ops = @ + 1]
    /\ UNCHANGED <<codec, imp, build>>

\* type, after, parent_id and synced_from force replacement: an Update's
\* plan has them as the state has them
BlockUpdate ==
    /\ res.kind = "block" /\ res.state # Nil /\ res.ops < MaxOps
    /\ \E content \in BlockContents, fault \in Faults :
          LET plan == [res.state EXCEPT !.rich_text = content.rich_text,
                                        !.icon = content.icon,
                                        !.caption = content.caption,
                                        !.color = content.color]
              out == BlockResourceUpdate(res.state, plan, fault, res.remote)
          IN \E done \in {out} :
                res' = [res EXCEPT
                        !.state = done.state,
                        !.remote = IF done.error # Null THEN @
                                   ELSE ServedBlockUpdate(@, done.sent[1]),
                        !.last = Ran("Update", res.state, plan, "none", done),
                        !.ops = @ + 1]
    /\ UNCHANGED <<codec, imp, build>>

BlockDelete ==
    /\ res.kind = "block" /\ res.state # Nil /\ res.ops < MaxOps
    /\ \E fault \in Faults :
          LET out == BlockResourceDelete(res.state, fault, res.remote) IN
          \E done \in {out} :
                res' = [res EXCEPT
                     !.state = done.state,
                     !.remote = IF done.error # Null THEN @
                                ELSE [@ EXCEPT !.archived = TRUE],
                     !.last = Ran("Delete", res.state, Nil, "none", done),
                     !.ops = @ + 1]
    /\ UNCHANGED <<codec, imp, build>>

\* somebody rewrites the block's text in the workspace
RewriteRemotely ==
    /\ res.kind = "block"
    /\ res.remote # Nil /\ ~res.remote.archived /\ ~res.remote.gone
    /\ "rich_text" \in DOMAIN res.remote.body
    /\ res.remote.body.rich_text # plainToRichText(<<"z">>)
    /\ res' = [res EXCEPT !.remote.body.rich_text = plainToRichText(<<"z">>)]
    /\ UNCHANGED <<codec, imp, build>>

BlockNext ==
    BlockCreate \/ BlockRead \/ BlockUpdate \/ BlockDelete \/ RewriteRemotely
    \/ ArchiveRemotely \/ PurgeRemotely

SpecBlockInit == codec = Off /\ imp = Off /\ build = Off /\ BlockInit

SpecBlock == SpecBlockInit /\ [][BlockNext]_vars

\* C8: a tracked block's stored `after` is the insertion point of the
\* Create that made it, through every Read and Update, whatever the
\* workspace answers
C8_AfterPreserved ==
    (res.kind = "block" /\ res.state # Nil) => res.state.after = res.createdWith.after

\* a block created after a sibling, rewritten in the workspace, updated and
\* then read successfully, still stored after that sibling
C8_Witness ==
    /\ res.kind = "block" /\ res.state # Nil
    /\ res.createdWith.after = Known(SiblingId)
    /\ res.last.op = "Read" /\ res.last.error = Null /\ res.last.answer = "live"
    /\ res.state.rich_text = Known(<<"z">>)
    /\ res.state.after = Known(SiblingId)

\* ------------------------------------------------------------- validators

validColors ==
    <<"default", "gray", "brown", "orange", "yellow",
      "green", "blue", "purple", "pink", "red">>
validNumberFormats ==
    <<"number", "number_with_commas", "percent", "dollar",
      "canadian_dollar", "euro", "pound", "yen", "ruble",
      "rupee", "won", "yuan", "real", "lira", "rupiah",
      "franc", "hong_kong_dollar", "new_zealand_dollar",
      "krona", "norwegian_krone", "mexican_peso",
      "rand", "new_taiwan_dollar", "danish_krone",
      "zloty", "baht", "forint", "koruna", "shekel",
      "chilean_peso", "philippine_peso", "dirham",
      "colombian_peso", "riyal", "ringgit", "leu",
      "argentine_peso", "uruguayan_peso", "singapore_dollar">>
validRollupFunctions ==
    <<"count_all", "count_values", "count_unique_values",
      "count_empty", "count_not_empty",
      "percent_empty", "percent_not_empty",
      "sum", "average", "median",
      "min", "max", "range">>

Listed(list, val) == \E i \in 1..Len(list) : list[i] = val

\* ValidateString of the three validators: no diagnostic for a null or
\* unknown value or a listed one, else the error with the list and the value
ValidateString(list, summary, val) ==
    IF val.k # "known" THEN Nil
    ELSE IF Listed(list, val.v) THEN Nil
    ELSE [summary |-> summary, expected |-> list, got |-> val.v]
ColorValidator(val) == ValidateString(validColors, "Invalid Color", val)
NumberFormatValidator(val) ==
    ValidateString(validNumberFormats, "Invalid Number Format", val)
RollupFunctionValidator(val) ==
    ValidateString(validRollupFunctions, "Invalid Rollup Function", val)

\* --------------------------------------------- database property handlers

\* Database.Update as the API answers it: the workspace refuses an option
\* color or a number format it does not know
Refused(req) ==
    \E n \in DOMAIN req.properties :
       LET c == req.properties[n] IN
       /\ c # Nil
       /\ \/ /\ c.type \in {"select", "multi_select"}
             /\ \E label \in DOMAIN c.options : ~Listed(validColors, c.options[label])
          \/ /\ c.type = "number"
             /\ ~Listed(validNumberFormats, c.format)
DatabaseUpdateResponse(db, req, fault) ==
    IF fault # "none" THEN Err(fault)
    ELSE IF db.gone THEN Err("not_found")
    ELSE IF Refused(req) THEN Err("validation_error")
    ELSE Ok(ViewDatabase(ServedDatabaseUpdate(db, req)))

\* the property types registered as basic resources
BasicTypes ==
    {"rich_text", "date", "people", "checkbox", "url", "email", "created_time",
     "created_by", "last_edited_time", "last_edited_by"}
buildPropertyConfig(propertyType) ==
    IF propertyType \in BasicTypes THEN [type |-> propertyType] ELSE Nil

\* the columns the range over db.Properties may stop at: any column with
\* the stored ID or the stored name
MatchingColumns(db, propertyName, propertyID) ==
    {name \in DOMAIN db.properties :
        db.properties[name].id = propertyID \/ name = propertyName}

\* readPropertyFromDatabase, for each column the range may stop at
readPropertyFromDatabase(resp, propertyName, propertyID) ==
    IF resp.err # Null THEN {Err("error reading database")}
    ELSE LET found == MatchingColumns(resp.value, propertyName, propertyID) IN
         IF found = {} THEN {Err("property not found in database")}
         ELSE {Ok([id |-> resp.value.properties[name].id, name |-> name]) : name \in found}

deletePropertyFromDatabase(db, propertyName, fault) ==
    LET req == DatabaseUpdateRequest(<<>>, propertyName :> Nil) IN
    [sent |-> <<req>>, resp |-> DatabaseUpdateResponse(db, req, fault)]

\* the ID a Create or Update stores: the column's, when the answer has the
\* column under the planned name
StoredId(plan, db) ==
    IF ValueName(plan.name) \in DOMAIN db.properties
    THEN Known(db.properties[ValueName(plan.name)].id) ELSE plan.id

DatabasePropertyBasicCreate(plan, propertyType, fault, db) ==
    LET req == DatabaseUpdateRequest(
                   <<>>, ValueName(plan.name) :> buildPropertyConfig(propertyType))
        resp == DatabaseUpdateResponse(db, req, fault)
    IN IF resp.err # Null THEN Outcome(Nil, "Error creating property", <<req>>)
       ELSE Outcome([plan EXCEPT !.id = StoredId(plan, resp.value)], Null, <<req>>)

\* Read: found is what readPropertyFromDatabase returned
DatabasePropertyBasicRead(state, found) ==
    IF found.err # Null THEN Outcome(Nil, Null, <<DatabaseGetRequest>>)
    ELSE Outcome([state EXCEPT !.id = Known(found.value.id),
                               !.name = Known(found.value.name)],
                 Null, <<DatabaseGetRequest>>)

DatabasePropertyBasicUpdate(plan) == Outcome(plan, Null, <<>>)

DatabasePropertyBasicDelete(state, fault, db) ==
    LET call == deletePropertyFromDatabase(db, ValueName(state.name), fault) IN
    IF call.resp.err # Null THEN Outcome(state, "Error deleting property", call.sent)
    ELSE Outcome(Nil, Null, call.sent)

\* buildSelectOptions: one option per element of the map, the color as
\* written (the options are kept by label; their order in the request is
\* the map's iteration order)
buildSelectOptions(optionsMap) ==
    [label \in Keys(optionsMap) |-> Elements(optionsMap)[label]]

SelectPropertyConfig(propertyType, options) == [type |-> propertyType, options |-> options]

\* Create and Update of the select and the multi_select resource
\* (propertyType tells them apart; op names the error)
DatabasePropertySelectWrite(op, prior, plan, propertyType, fault, db) ==
    LET options == buildSelectOptions(plan.options)
        req == DatabaseUpdateRequest(
                   <<>>, ValueName(plan.name) :> SelectPropertyConfig(propertyType, options))
        resp == DatabaseUpdateResponse(db, req, fault)
    IN IF resp.err # Null THEN Outcome(prior, op, <<req>>)
       ELSE Outcome([plan EXCEPT !.id = StoredId(plan, resp.value)], Null, <<req>>)
DatabasePropertySelectCreate(plan, propertyType, fault, db) ==
    DatabasePropertySelectWrite(
        IF propertyType = "multi_select" THEN "Error creating multi-select property"
        ELSE "Error creating select property",
        Nil, plan, propertyType, fault, db)
DatabasePropertySelectUpdate(state, plan, propertyType, fault, db) ==
    DatabasePropertySelectWrite(
        IF propertyType = "multi_select" THEN "Error updating multi-select property"
        ELSE "Error updating select property",
        state, plan, propertyType, fault, db)

\* Read: name is the column the range stopped at (Null when none matches)
DatabasePropertySelectRead(state, propertyType, resp, name) ==
    IF resp.err # Null THEN Outcome(state, "Error reading database", <<DatabaseGetRequest>>)
    ELSE IF name = Null THEN Outcome(Nil, Null, <<DatabaseGetRequest>>)
    ELSE LET prop == resp.value.properties[name] IN
         Outcome([state EXCEPT
                     !.id = Known(prop.id),
                     !.name = Known(name),
                     !.options = IF prop.type = propertyType
                                 THEN MapOf(prop.config.options) ELSE @],
                 Null, <<DatabaseGetRequest>>)

DatabasePropertySelectDelete(state, propertyType, fault, db) ==
    LET call == deletePropertyFromDatabase(db, ValueName(state.name), fault) IN
    IF call.resp.err # Null
    THEN Outcome(state,
                 IF propertyType = "multi_select" THEN "Error deleting multi-select property"
                 ELSE "Error deleting select property",
                 call.sent)
    ELSE Outcome(Nil, Null, call.sent)

NumberPropertyConfig(format) == [type |-> "number", format |-> format]

DatabasePropertyNumberWrite(op, prior, plan, fault, db) ==
    LET req == DatabaseUpdateRequest(
                   <<>>, ValueName(plan.name) :> NumberPropertyConfig(ValueName(plan.format)))
        resp == DatabaseUpdateResponse(db, req, fault)
    IN IF resp.err # Null THEN Outcome(prior, op, <<req>>)
       ELSE Outcome([plan EXCEPT !.id = StoredId(plan, resp.value)], Null, <<req>>)
DatabasePropertyNumberCreate(plan, fault, db) ==
    DatabasePropertyNumberWrite("Error creating number property", Nil, plan, fault, db)
DatabasePropertyNumberUpdate(state, plan, fault, db) ==
    DatabasePropertyNumberWrite("Error updating number property", state, plan, fault, db)

DatabasePropertyNumberRead(state, resp, name) ==
    IF resp.err # Null THEN Outcome(state, "Error reading database", <<DatabaseGetRequest>>)
    ELSE IF name = Null THEN Outcome(Nil, Null, <<DatabaseGetRequest>>)
    ELSE LET prop == resp.value.properties[name] IN
         Outcome([state EXCEPT
                     !.id = Known(prop.id),
                     !.name = Known(name),
                     !.format = IF prop.type = "number"
                                THEN Known(prop.config.format) ELSE @],
                 Null, <<DatabaseGetRequest>>)

DatabasePropertyNumberDelete(state, fault, db) ==
    LET call == deletePropertyFromDatabase(db, ValueName(state.name), fault) IN
    IF call.resp.err # Null THEN Outcome(state, "Error deleting number property", call.sent)
    ELSE Outcome(Nil, Null, call.sent)

\* the validators each schema attaches to its attributes, applied to a
\* configuration before Create or Update runs: the diagnostics they raise.
\* Only the number resource's format has one; the options of select and
\* multi_select have none
SchemaDiagnostics(kind, plan) ==
    IF kind = "property_number" THEN
        LET d == NumberFormatValidator(plan.format) IN IF d = Nil THEN {} ELSE {d}
    ELSE {}

\* ------------------------------------------- database property lifecycle

PropertyKinds ==
    {<<"property_basic", "rich_text">>, <<"property_basic", "checkbox">>,
     <<"property_select", "select">>, <<"property_select", "multi_select">>,
     <<"property_number", "number">>}
ColumnName == "Status"
OptionMaps == {MapOf("Done" :> c) : c \in {"green", "red", "magenta"}}
Formats == {"number", "percent", "bogus"}

\* the databases a property is managed on: one title column
PropertyDatabase ==
    ServedDatabaseCreate(DatabaseCreateRequest(
        [type |-> "page_id", id |-> ParentId], plainToRichText(<<"t">>),
        "Name" :> TitlePropertyConfig, FALSE))

\* the configurations of a property of each kind
PropertyPlans(kind) ==
    CASE kind = "property_basic" ->
           {[id |-> StrUnknown, database |-> Known(ObjectId), name |-> Known(ColumnName)]}
      [] kind = "property_select" ->
           {[id |-> StrUnknown, database |-> Known(ObjectId), name |-> Known(ColumnName),
             options |-> o] : o \in OptionMaps}
      [] kind = "property_number" ->
           {[id |-> StrUnknown, database |-> Known(ObjectId), name |-> Known(ColumnName),
             format |-> Known(f)] : f \in Formats}

\* what an operation leaves when a validator refused the configuration:
\* the handler did not run
Invalid(prior, diags) ==
    Outcome(prior, (CHOOSE d \in diags : TRUE).summary, <<>>)
RanValidated(op, prior, plan, answer, diags, out) ==
    [op |-> op, error |-> out.error, sent |-> out.sent, prior |-> prior, plan |-> plan,
     answer |-> answer, diags |-> diags]

PropertyInit ==
    res \in {[kind |-> k[1], ptype |-> k[2], state |-> Nil, remote |-> PropertyDatabase,
              last |-> RanValidated("none", Nil, Nil, "none", {}, Outcome(Nil, Null, <<>>)),
              ops |-> 0] : k \in PropertyKinds}

PropertyCreate ==
    /\ res.kind \in {k[1] : k \in PropertyKinds} /\ res.state = Nil /\ res.ops < MaxOps
    /\ \E plan \in PropertyPlans(res.kind), fault \in Faults :
          LET diags == SchemaDiagnostics(res.kind, plan)
              out == IF diags # {} THEN Invalid(Nil, diags)
                     ELSE CASE res.kind = "property_basic" ->
                                 DatabasePropertyBasicCreate(plan, res.ptype, fault, res.remote)
                            [] res.kind = "property_select" ->
                                 DatabasePropertySelectCreate(plan, res.ptype, fault, res.remote)
                            [] res.kind = "property_number" ->
                                 DatabasePropertyNumberCreate(plan, fault, res.remote)
          IN \E done \in {out} :
                res' = [res EXCEPT
                        !.state = done.state,
                        !.remote = IF done.error # Null THEN @
                                   ELSE ServedDatabaseUpdate(@, done.sent[1]),
                        !.last = RanValidated("Create", Nil, plan, "none", diags, done),
                        !.ops = @ + 1]
    /\ UNCHANGED <<codec, imp, build>>

PropertyRead ==
    /\ res.kind \in {k[1] : k \in PropertyKinds} /\ res.state # Nil /\ res.ops < MaxOps
    /\ \E fault \in Faults :
          LET resp == DatabaseGetResponse(res.remote, fault)
              propertyName == ValueName(res.state.name)
              propertyID == ValueName(res.state.id)
              names == IF resp.err # Null THEN {}
                       ELSE MatchingColumns(resp.value, propertyName, propertyID)
              outs == CASE res.kind = "property_basic" ->
                             {DatabasePropertyBasicRead(res.state, found) :
                                found \in readPropertyFromDatabase(resp, propertyName, propertyID)}
                        [] res.kind = "property_select" ->
                             {DatabasePropertySelectRead(res.state, res.ptype, resp, name) :
                                name \in IF names = {} THEN {Null} ELSE names}
                        [] res.kind = "property_number" ->
                             {DatabasePropertyNumberRead(res.state, resp, name) :
                                name \in IF names = {} THEN {Null} ELSE names}
              answer == IF resp.err # Null THEN resp.err
                        ELSE IF names = {} THEN "no_column" ELSE "live"
          IN \E out \in outs :
                res' = [res EXCEPT
                           !.state = out.state,
                           !.last = RanValidated("Read", res.state, Nil, answer, {}, out),
                           !.ops = @ + 1]
    /\ UNCHANGED <<codec, imp, build>>

\* database and name force replacement: an Update's plan has them as the
\* state has them
PropertyUpdate ==
    /\ res.kind \in {k[1] : k \in PropertyKinds} /\ res.state # Nil /\ res.ops < MaxOps
    /\ \E config \in PropertyPlans(res.kind), fault \in Faults :
          LET plan == [config EXCEPT !.id = res.state.id, !.name = res.state.name]
              diags == SchemaDiagnostics(res.kind, plan)
              out == IF diags # {} THEN Invalid(res.state, diags)
                     ELSE CASE res.kind = "property_basic" -> DatabasePropertyBasicUpdate(plan)
                            [] res.kind = "property_select" ->
                                 DatabasePropertySelectUpdate(res.state, plan, res.ptype,
                                                              fault, res.remote)
                            [] res.kind = "property_number" ->
                                 DatabasePropertyNumberUpdate(res.state, plan, fault, res.remote)
          IN \E done \in {out} :
                res' = [res EXCEPT
                        !.state = done.state,
                        !.remote = IF done.error # Null \/ done.sent = <<>> THEN @
                                   ELSE ServedDatabaseUpdate(@, done.sent[1]),
                        !.last = RanValidated("Update", res.state, plan, "none", diags, done),
                        !.ops = @ + 1]
    /\ UNCHANGED <<codec, imp, build>>

PropertyDelete ==
    /\ res.kind \in {k[1] : k \in PropertyKinds} /\ res.state # Nil /\ res.ops < MaxOps
    /\ \E fault \in Faults :
          LET out == CASE res.kind = "property_basic" ->
                            DatabasePropertyBasicDelete(res.state, fault, res.remote)
                       [] res.kind = "property_select" ->
                            DatabasePropertySelectDelete(res.state, res.ptype, fault, res.remote)
                       [] res.kind = "property_number" ->
                            DatabasePropertyNumberDelete(res.state, fault, res.remote)
          IN \E done \in {out} :
                res' = [res EXCEPT
                        !.state = done.state,
                        !.remote = IF done.error # Null THEN @
                                   ELSE ServedDatabaseUpdate(@, done.sent[1]),
                        !.last = RanValidated("Delete", res.state, Nil, "none", {}, done),
                        !.ops = @ + 1]
    /\ UNCHANGED <<codec, imp, build>>

\* somebody deletes the managed column in the workspace
DropColumnRemotely ==
    /\ res.kind \in {k[1] : k \in PropertyKinds}
    /\ ~res.remote.gone /\ ColumnName \in DOMAIN res.remote.properties
    /\ res' = [res EXCEPT !.remote.properties =
                  [n \in DOMAIN @ \ {ColumnName} |-> @[n]]]
    /\ UNCHANGED <<codec, imp, build>>

\* somebody renames the managed column in the workspace; it keeps its ID
RenameColumnRemotely ==
    /\ res.kind \in {k[1] : k \in PropertyKinds}
    /\ ~res.remote.gone /\ ColumnName \in DOMAIN res.remote.properties
    /\ res' = [res EXCEPT !.remote.properties =
                  [n \in (DOMAIN @ \ {ColumnName}) \cup {"Renamed"} |->
                      IF n = "Renamed" THEN @[ColumnName] ELSE @[n]]]
    /\ UNCHANGED <<codec, imp, build>>

\* somebody adds a column under the name the renamed column had; the
\* workspace gives it an ID of its own
ReplacementColumnId == "c9"
AddNamesakeRemotely ==
    /\ res.kind \in {k[1] : k \in PropertyKinds}
    /\ ~res.remote.gone
    /\ "Renamed" \in DOMAIN res.remote.properties
    /\ ColumnName \notin DOMAIN res.remote.properties
    /\ res' = [res EXCEPT !.remote.properties =
                  [n \in DOMAIN @ \cup {ColumnName} |->
                      IF n = ColumnName
                      THEN [id |-> ReplacementColumnId, type |-> "rich_text",
                            config |-> [type |-> "rich_text"]]
                      ELSE @[n]]]
    /\ UNCHANGED <<codec, imp, build>>

PropertyNext ==
    PropertyCreate \/ PropertyRead \/ PropertyUpdate \/ PropertyDelete
    \/ DropColumnRemotely \/ RenameColumnRemotely \/ AddNamesakeRemotely
    \/ PurgeRemotely

SpecPropertyInit == codec = Off /\ imp = Off /\ build = Off /\ PropertyInit

SpecProperty == SpecPropertyInit /\ [][PropertyNext]_vars

\* ------------------------------------------------ identifier normal form

\* identifiers as the API and configurations write them: hex digits, with
\* hyphens anywhere
IdChars == {"a", "1", "-"}
Identifiers == SeqsUpTo(IdChars, MaxIdLen)
\* the characters of an identifier that are not hyphens, in order
HexOf(id) == SelectSeq(id, LAMBDA c : c # "-")

\* two identifiers a caller holds
NormalizeInit ==
    imp \in {[pc |-> "ids", x |-> x, y |-> y, nx |-> <<>>, ny |-> <<>>, nnx |-> <<>>] :
                x \in Identifiers, y \in Identifiers}

\* the caller normalizes both (normalizeID)
NormalizeBoth ==
    /\ imp.pc = "ids"
    /\ imp' = [imp EXCEPT !.nx = normalizeID(imp.x), !.ny = normalizeID(imp.y),
                          !.pc = "normalized"]
    /\ UNCHANGED <<codec, build, res>>

\* a normalized identifier is normalized again, as when a stored id is
\* passed through normalizeID by the next handler
NormalizeAgain ==
    /\ imp.pc = "normalized"
    /\ imp' = [imp EXCEPT !.nnx = normalizeID(imp.nx), !.pc = "renormalized"]
    /\ UNCHANGED <<codec, build, res>>

NormalizeNext == NormalizeBoth \/ NormalizeAgain

SpecNormalizeInit == codec = Off /\ NormalizeInit /\ build = Off /\ res = NoResource

SpecNormalize == SpecNormalizeInit /\ [][NormalizeNext]_vars

\* ------------------------------------------- the database-entries listing

MaxRows == 3

\* fmt's %d of a natural number
RECURSIVE Decimal(_)
Decimal(n) ==
    IF n < 10 THEN <<Digits[n + 1]>>
    ELSE Decimal(n \div 10) \o <<Digits[(n % 10) + 1]>>
\* fmt's %g of a whole number below 10^21: its digits, signed
FormatG(x) == IF x < 0 THEN <<"-">> \o Decimal(0 - x) ELSE Decimal(x)

\* strings.Join
RECURSIVE Join(_, _)
Join(parts, sep) ==
    IF Len(parts) = 0 THEN <<>>
    ELSE IF Len(parts) = 1 THEN parts[1]
    ELSE parts[1] \o sep \o Join(Tail(parts), sep)
CommaSpace == <<",", " ">>
Names(list) == [i \in 1..Len(list) |-> list[i].name]

\* a json.RawMessage: absent, an array of rich-text objects, or any other
\* JSON value
RawAbsent == [json |-> "absent"]
RawArray(items) == [json |-> "array", items |-> items]
RawObject == [json |-> "object"]
\* a non-nil pointer to v
Ptr(v) == [v |-> v]

extractRichText(raw) ==
    IF raw.json = "absent" THEN <<>>
    ELSE IF raw.json # "array" THEN <<>>
    ELSE Join([i \in 1..Len(raw.items) |-> raw.items[i].plain_text], <<>>)

rawPropertyToString(prop) ==
    CASE prop.type = "title" -> extractRichText(prop.title)
      [] prop.type = "rich_text" -> extractRichText(prop.rich_text)
      [] prop.type = "number" -> IF prop.number # Nil THEN FormatG(prop.number.v) ELSE <<>>
      [] prop.type = "select" -> IF prop.select # Nil THEN prop.select.name ELSE <<>>
      [] prop.type = "multi_select" -> Join(Names(prop.multi_select), CommaSpace)
      [] prop.type = "date" -> IF prop.date # Nil THEN prop.date.start ELSE <<>>
      [] prop.type = "checkbox" ->
           IF prop.checkbox # Nil /\ prop.checkbox.v THEN <<"t", "r", "u", "e">> ELSE <<"f", "a", "l", "s", "e">>
      [] prop.type = "url" -> IF prop.url # Nil THEN prop.url.v ELSE <<>>
      [] prop.type = "email" -> IF prop.email # Nil THEN prop.email.v ELSE <<>>
      [] prop.type = "phone_number" ->
           IF prop.phone_number # Nil THEN prop.phone_number.v ELSE <<>>
      [] prop.type = "people" -> Join(Names(prop.people), CommaSpace)
      [] prop.type = "relation" ->
           Join([i \in 1..Len(prop.relation) |-> prop.relation[i].id], CommaSpace)
      [] prop.type = "created_time" ->
           IF prop.created_time # Nil THEN prop.created_time.v ELSE <<>>
      [] prop.type = "created_by" ->
           IF prop.created_by # Nil THEN prop.created_by.name ELSE <<>>
      [] prop.type = "last_edited_time" ->
           IF prop.last_edited_time # Nil THEN prop.last_edited_time.v ELSE <<>>
      [] prop.type = "last_edited_by" ->
           IF prop.last_edited_by # Nil THEN prop.last_edited_by.name ELSE <<>>
      [] prop.type = "status" -> IF prop.status # Nil THEN prop.status.name ELSE <<>>
      [] prop.type = "unique_id" ->
           IF prop.unique_id = Nil THEN <<>>
           ELSE IF prop.unique_id.prefix # Nil /\ prop.unique_id.prefix.v # <<>>
           THEN prop.unique_id.prefix.v \o <<"-">> \o Decimal(prop.unique_id.number)
           ELSE Decimal(prop.unique_id.number)
      [] prop.type = "formula" ->
           IF prop.formula = Nil THEN <<>>
           ELSE CASE prop.formula.type = "string" -> prop.formula.string
                  [] prop.formula.type = "number" /\ prop.formula.number # Nil ->
                       FormatG(prop.formula.number.v)
                  [] prop.formula.type = "boolean" /\ prop.formula.boolean # Nil ->
                       IF prop.formula.boolean.v THEN <<"t", "r", "u", "e">> ELSE <<"f", "a", "l", "s", "e">>
                  [] prop.formula.type = "date" /\ prop.formula.date # Nil ->
                       prop.formula.date.start
                  [] OTHER -> <<>>
      [] prop.type = "rollup" ->
           IF prop.rollup = Nil THEN <<>>
           ELSE CASE prop.rollup.type = "number" /\ prop.rollup.number # Nil ->
                       FormatG(prop.rollup.number.v)
                  [] prop.rollup.type = "date" /\ prop.rollup.date # Nil ->
                       prop.rollup.date.start
                  [] OTHER -> <<>>
      [] prop.type = "files" -> Join(Names(prop.files), CommaSpace)
      [] OTHER -> <<>>

\* the kinds rawPropertyToString has a case for
ListedKinds ==
    {"title", "rich_text", "number", "select", "multi_select", "date", "checkbox",
     "url", "email", "phone_number", "people", "relation", "created_time",
     "created_by", "last_edited_time", "last_edited_by", "status", "unique_id",
     "formula", "rollup", "files"}

\* an entry that leaves out the properties of kinds without a case
ListEntry_SkipsUnlisted(page) ==
    LET titles == {n \in DOMAIN page.properties : page.properties[n].type = "title"} IN
    [id |-> Known(normalizeID(page.id)),
     url |-> Known(page.url),
     title |-> IF titles = {} THEN Known(<<>>)
               ELSE Known(rawPropertyToString(page.properties[CHOOSE n \in titles : TRUE])),
     properties |-> [n \in {m \in DOMAIN page.properties :
                               page.properties[m].type \in ListedKinds} |->
                        rawPropertyToString(page.properties[n])]]

\* the entry Read builds from one result of a query; a page has one title
\* property
ListEntry(page) ==
    LET titles == {n \in DOMAIN page.properties : page.properties[n].type = "title"} IN
    [id |-> Known(normalizeID(page.id)),
     url |-> Known(page.url),
     title |-> IF titles = {} THEN Known(<<>>)
               ELSE Known(rawPropertyToString(page.properties[CHOOSE n \in titles : TRUE])),
     properties |-> [n \in DOMAIN page.properties |->
                        rawPropertyToString(page.properties[n])]]

\* the query queryDatabaseRaw posts: start_cursor is left out when empty
QueryRequest(databaseID, startCursor) ==
    [api |-> "POST /v1/databases/{id}/query", database |-> databaseID, page_size |-> 100,
     start_cursor |-> startCursor]

\* the cursor the workspace hands out for the rows after the first k, and
\* where a cursor resumes
CursorAt(k) == <<"c", Digits[k + 1]>>
OffsetOf(cursor) == IF cursor = <<>> THEN 0 ELSE DigitVal[cursor[2]]

\* the query as the workspace serves it: at most chunk results (never more
\* than page_size) from the cursor on, and a cursor when rows are left
ServedQuery(pages, cursor, chunk) ==
    LET from == OffsetOf(cursor)
        to == IF from + chunk < Len(pages) THEN from + chunk ELSE Len(pages)
    IN [results |-> [i \in 1..(to - from) |-> pages[from + i]],
        has_more |-> to < Len(pages),
        next_cursor |-> IF to < Len(pages) THEN CursorAt(to) ELSE <<>>]

\* the loop of Read: the failAt-th query fails (0: none does)
RECURSIVE QueryLoop(_, _, _, _, _, _, _)
QueryLoop(config, pages, chunk, failAt, startCursor, entries, sent) ==
    LET queried == Append(sent, QueryRequest(ValueString(config.database), startCursor)) IN
    IF Len(queried) = failAt THEN Outcome(Nil, "Error querying database", queried)
    ELSE LET result == ServedQuery(pages, startCursor, chunk)
             listed == entries \o [i \in 1..Len(result.results) |->
                                      ListEntry(result.results[i])]
         IN IF ~result.has_more
            THEN Outcome([database |-> config.database, entries |-> listed], Null, queried)
            ELSE QueryLoop(config, pages, chunk, failAt, result.next_cursor, listed, queried)

\* a Read that stores what it has listed when a query fails
DatabaseEntriesRead_KeepsListed(config, pages, chunk, failAt) ==
    LET full == QueryLoop(config, pages, chunk, 0, <<>>, <<>>, <<>>)
        cut == QueryLoop(config, pages, chunk, failAt, <<>>, <<>>, <<>>)
    IN IF cut.error = Null THEN cut
       ELSE Outcome([database |-> config.database,
                     entries |-> SubSeq(full.state.entries, 1,
                                        IF (Len(cut.sent) - 1) * chunk < Len(pages)
                                        THEN (Len(cut.sent) - 1) * chunk ELSE Len(pages))],
                    cut.error, cut.sent)

DatabaseEntriesRead(config, pages, chunk, failAt) ==
    QueryLoop(config, pages, chunk, failAt, <<>>, <<>>, <<>>)

\* ---------------------------------------------- the listing's environment

\* the values a row of the listed database holds: every kind with a value
\* (template 1) and every kind without one (template 2), both with a
\* property of a kind the provider does not know
DateOnlyText == <<"2", "0", "2", "4", "-", "0", "1", "-", "1", "5">>
MidnightText == <<"2", "0", "2", "4", "-", "0", "1", "-", "1", "5", "T", "0", "0", ":", "0", "0", ":", "0", "0", ".", "0", "0", "0", "+", "0", "0", ":", "0", "0">>
ClockText == <<"2", "0", "2", "4", "-", "0", "1", "-", "1", "5", "T", "1", "0", ":", "3", "0", ":", "0", "0", ".", "0", "0", "0", "+", "0", "0", ":", "0", "0">>
OffsetText == <<"2", "0", "2", "4", "-", "0", "1", "-", "1", "5", "T", "1", "0", ":", "3", "0", ":", "0", "0", ".", "0", "0", "0", "+", "0", "9", ":", "0", "0">>
Option(name) == [name |-> name]
RichTexts(texts) == RawArray([i \in 1..Len(texts) |-> [plain_text |-> texts[i]]])

FilledProperties ==
    ("Name" :> [type |-> "title", title |-> RichTexts(<<<<"t">>, <<"2">>>>)])
    @@ ("Notes" :> [type |-> "rich_text", rich_text |-> RichTexts(<<<<"n">>>>)])
    @@ ("Count" :> [type |-> "number", number |-> Ptr(42)])
    @@ ("Debt" :> [type |-> "number", number |-> Ptr(0 - 7)])
    @@ ("Kind" :> [type |-> "select", select |-> Option(<<"k">>)])
    @@ ("Tags" :> [type |-> "multi_select",
                   multi_select |-> <<Option(<<"a">>), Option(<<"b">>)>>])
    @@ ("Day" :> [type |-> "date", date |-> [start |-> DateOnlyText]])
    @@ ("Midnight" :> [type |-> "date", date |-> [start |-> MidnightText]])
    @@ ("Clock" :> [type |-> "date", date |-> [start |-> ClockText]])
    @@ ("Abroad" :> [type |-> "date", date |-> [start |-> OffsetText]])
    @@ ("Done" :> [type |-> "checkbox", checkbox |-> Ptr(TRUE)])
    @@ ("Link" :> [type |-> "url", url |-> Ptr(<<"u">>)])
    @@ ("Mail" :> [type |-> "email", email |-> Ptr(<<"m">>)])
    @@ ("Phone" :> [type |-> "phone_number", phone_number |-> Ptr(<<"5">>)])
    @@ ("Owners" :> [type |-> "people",
                     people |-> <<[name |-> <<"x">>, id |-> <<"u", "-", "1">>],
                                  [name |-> <<"y">>, id |-> <<"u", "-", "2">>]>>])
    @@ ("Parents" :> [type |-> "relation", relation |-> <<[id |-> <<"e", "-", "9">>]>>])
    @@ ("Made" :> [type |-> "created_time", created_time |-> Ptr(ClockText)])
    @@ ("Maker" :> [type |-> "created_by",
                    created_by |-> [name |-> <<"x">>, id |-> <<"u", "-", "1">>]])
    @@ ("Edited" :> [type |-> "last_edited_time", last_edited_time |-> Ptr(ClockText)])
    @@ ("Editor" :> [type |-> "last_edited_by",
                     last_edited_by |-> [name |-> <<"y">>, id |-> <<"u", "-", "2">>]])
    @@ ("State" :> [type |-> "status", status |-> Option(<<"s">>)])
    @@ ("Ticket" :> [type |-> "unique_id",
                     unique_id |-> [prefix |-> Ptr(<<"P">>), number |-> 12]])
    @@ ("Serial" :> [type |-> "unique_id", unique_id |-> [prefix |-> Nil, number |-> 3]])
    @@ ("Label" :> [type |-> "formula",
                    formula |-> [type |-> "string", string |-> <<"f">>]])
    @@ ("Sum" :> [type |-> "formula", formula |-> [type |-> "number", number |-> Ptr(5)]])
    @@ ("Late" :> [type |-> "formula",
                   formula |-> [type |-> "boolean", boolean |-> Ptr(FALSE)]])
    @@ ("Next" :> [type |-> "formula",
                   formula |-> [type |-> "date", date |-> [start |-> DateOnlyText]]])
    @@ ("Total" :> [type |-> "rollup", rollup |-> [type |-> "number", number |-> Ptr(9)]])
    @@ ("Last" :> [type |-> "rollup",
                   rollup |-> [type |-> "date", date |-> [start |-> ClockText]]])
    @@ ("All" :> [type |-> "rollup", rollup |-> [type |-> "array"]])
    @@ ("Docs" :> [type |-> "files", files |-> <<Option(<<"d">>)>>])
    @@ ("Where" :> [type |-> "place"])
    @@ ("Press" :> [type |-> "button"])

EmptyProperties ==
    ("Name" :> [type |-> "title", title |-> RawArray(<<>>)])
    @@ ("Notes" :> [type |-> "rich_text", rich_text |-> RawAbsent])
    @@ ("Odd" :> [type |-> "rich_text", rich_text |-> RawObject])
    @@ ("Count" :> [type |-> "number", number |-> Nil])
    @@ ("Kind" :> [type |-> "select", select |-> Nil])
    @@ ("Tags" :> [type |-> "multi_select", multi_select |-> <<>>])
    @@ ("Day" :> [type |-> "date", date |-> Nil])
    @@ ("Done" :> [type |-> "checkbox", checkbox |-> Nil])
    @@ ("Undone" :> [type |-> "checkbox", checkbox |-> Ptr(FALSE)])
    @@ ("Link" :> [type |-> "url", url |-> Nil])
    @@ ("Mail" :> [type |-> "email", email |-> Nil])
    @@ ("Phone" :> [type |-> "phone_number", phone_number |-> Nil])
    @@ ("Owners" :> [type |-> "people", people |-> <<>>])
    @@ ("Parents" :> [type |-> "relation", relation |-> <<>>])
    @@ ("Made" :> [type |-> "created_time", created_time |-> Nil])
    @@ ("Maker" :> [type |-> "created_by", created_by |-> Nil])
    @@ ("Edited" :> [type |-> "last_edited_time", last_edited_time |-> Nil])
    @@ ("Editor" :> [type |-> "last_edited_by", last_edited_by |-> Nil])
    @@ ("State" :> [type |-> "status", status |-> Nil])
    @@ ("Ticket" :> [type |-> "unique_id", unique_id |-> Nil])
    @@ ("Blank" :> [type |-> "unique_id",
                    unique_id |-> [prefix |-> Ptr(<<>>), number |-> 0]])
    @@ ("Label" :> [type |-> "formula", formula |-> Nil])
    @@ ("Sum" :> [type |-> "formula", formula |-> [type |-> "number", number |-> Nil]])
    @@ ("Late" :> [type |-> "formula", formula |-> [type |-> "boolean", boolean |-> Nil]])
    @@ ("Next" :> [type |-> "formula", formula |-> [type |-> "date", date |-> Nil]])
    @@ ("Total" :> [type |-> "rollup", rollup |-> Nil])
    @@ ("Last" :> [type |-> "rollup", rollup |-> [type |-> "date", date |-> Nil]])
    @@ ("Docs" :> [type |-> "files", files |-> <<>>])
    @@ ("Where" :> [type |-> "place"])

RowTemplates == {"filled", "empty"}
RowId(i) == <<"e", "-", Digits[i + 1]>>
\* the page the workspace holds for a row
RowPage(row) ==
    [id |-> RowId(row.n), url |-> ObjectURL \o <<Digits[row.n + 1]>>,
     properties |-> IF row.template = "filled" THEN FilledProperties
                    ELSE EmptyProperties]
RowPages(rows) == [i \in 1..Len(rows) |-> RowPage(rows[i])]

ListedDatabaseId == <<"d", "-", "1">>
ListingConfig == [database |-> Known(ListedDatabaseId)]

\* served is what the last Read met: the rows of the database and how the
\* workspace cut them into pages
ListingInit ==
    res = [kind |-> "listing", state |-> Nil, remote |-> [rows |-> <<>>],
           last |-> NoOp, ops |-> 0, served |-> Nil]

ListingRead ==
    /\ res.kind = "listing" /\ res.ops < MaxOps
    /\ \E chunk \in 1..MaxRows, failAt \in 0..MaxRows :
          LET out == DatabaseEntriesRead(ListingConfig, RowPages(res.remote.rows),
                                         chunk, failAt)
          IN \E done \in {out} :
                res' = [res EXCEPT
                        !.state = done.state,
                        !.served = [rows |-> res.remote.rows, chunk |-> chunk,
                                     failAt |-> failAt],
                        !.last = Ran("Read", Nil, ListingConfig, "none", done),
                        !.ops = @ + 1]
    /\ UNCHANGED <<codec, imp, build>>

\* somebody adds an entry to the listed database
AddRowRemotely ==
    /\ res.kind = "listing" /\ Len(res.remote.rows) < MaxRows
    /\ \E template \in RowTemplates :
          res' = [res EXCEPT !.remote.rows =
                     Append(@, [n |-> Len(@) + 1, template |-> template])]
    /\ UNCHANGED <<codec, imp, build>>

ListingNext == ListingRead \/ AddRowRemotely

SpecListingInit == codec = Off /\ imp = Off /\ build = Off /\ ListingInit

SpecListing == SpecListingInit /\ [][ListingNext]_vars

\* ------------------------------------------------- page and user lookups

SearchRequest(query) == [api |-> "POST /v1/search", query |-> query]
UserListRequest(cursor) == [api |-> "User.List", page_size |-> 100, start_cursor |-> cursor]

\* PageDataSource.Read: results is what the search answered
PageDataSourceRead(config, results, fault) ==
    LET sent == <<SearchRequest(ValueString(config.query))>> IN
    IF fault # "none" THEN Outcome(Nil, "Error searching for page", sent)
    ELSE IF Len(results) = 0 THEN Outcome(Nil, "Page not found", sent)
    ELSE LET page == results[1]
             titles == {n \in DOMAIN page.properties : page.properties[n].type = "title"}
         IN Outcome(
               [query |-> config.query,
                id |-> Known(normalizeID(page.id)),
                url |-> Known(page.url),
                parent_page_id |-> IF page.parent.type = "page_id" /\ page.parent.id # <<>>
                                   THEN Known(normalizeID(page.parent.id))
                                   ELSE Known(<<>>),
                title |-> IF titles = {} THEN StrNull
                          ELSE Known(extractRichText(
                                        page.properties[CHOOSE n \in titles : TRUE].title))],
               Null, sent)

\* the first person of a list with the wanted email, 0 when there is none
RECURSIVE FirstWithEmail(_, _, _)
FirstWithEmail(users, email, i) ==
    IF i > Len(users) THEN 0
    ELSE IF users[i].person # Nil /\ users[i].person.email = email THEN i
    ELSE FirstWithEmail(users, email, i + 1)

\* the loop of UserDataSource.Read over the pages of User.List: the
\* failAt-th call fails (0: none does)
RECURSIVE UserLoop(_, _, _, _, _, _)
UserLoop(config, users, chunk, failAt, cursor, sent) ==
    LET listed == Append(sent, UserListRequest(cursor)) IN
    IF Len(listed) = failAt THEN Outcome(Nil, "Error listing users", listed)
    ELSE LET answer == ServedQuery(users, cursor, chunk)
             hit == FirstWithEmail(answer.results, ValueString(config.email), 1)
         IN IF hit # 0
            THEN Outcome([email |-> config.email,
                          id |-> Known(normalizeID(answer.results[hit].id)),
                          name |-> Known(answer.results[hit].name),
                          user_id |-> Known(normalizeID(answer.results[hit].id))],
                         Null, listed)
            ELSE IF ~answer.has_more THEN Outcome(Nil, "User not found", listed)
            ELSE UserLoop(config, users, chunk, failAt, answer.next_cursor, listed)

UserDataSourceRead(config, users, chunk, failAt) ==
    UserLoop(config, users, chunk, failAt, <<>>, <<>>)

\* the workspace the lookups search: pages under a page and at the top of
\* the workspace, a bot and two people
FoundPages ==
    <<[id |-> ObjectId, url |-> ObjectURL, parent |-> [type |-> "page_id", id |-> ParentId],
       properties |-> ("title" :> [type |-> "title", title |-> RichTexts(<<<<"t">>>>)])],
      [id |-> ObjectId, url |-> ObjectURL, parent |-> [type |-> "workspace", id |-> <<>>],
       properties |-> ("title" :> [type |-> "title", title |-> RichTexts(<<<<"t">>>>)])]>>
WorkspaceUsers ==
    <<[id |-> <<"u", "-", "0">>, name |-> <<"b">>, person |-> Nil],
      [id |-> <<"u", "-", "1">>, name |-> <<"x">>, person |-> [email |-> <<"x">>]],
      [id |-> <<"u", "-", "2">>, name |-> <<"y">>, person |-> [email |-> <<"y">>]]>>
Emails == {<<"x">>, <<"y">>, <<"z">>}

LookupInit ==
    res = [kind |-> "lookup", state |-> Nil, remote |-> Nil, last |-> NoOp, ops |-> 0]

PageLookup ==
    /\ res.kind = "lookup" /\ res.ops < MaxOps
    /\ \E found \in 0..Len(FoundPages), fault \in Faults :
          LET config == [query |-> Known(<<"t">>)]
              results == IF found = 0 THEN <<>> ELSE <<FoundPages[found]>>
              out == PageDataSourceRead(config, results, fault)
          IN \E done \in {out} :
                res' = [res EXCEPT !.state = done.state,
                                   !.last = Ran("ReadPage", Nil, config, "none", done),
                                   !.ops = @ + 1]
    /\ UNCHANGED <<codec, imp, build>>

UserLookup ==
    /\ res.kind = "lookup" /\ res.ops < MaxOps
    /\ \E email \in Emails, chunk \in 1..Len(WorkspaceUsers),
          failAt \in 0..Len(WorkspaceUsers) :
          LET config == [email |-> Known(email)]
              out == UserDataSourceRead(config, WorkspaceUsers, chunk, failAt)
          IN \E done \in {out} :
                res' = [res EXCEPT !.state = done.state,
                                   !.last = Ran("ReadUser", Nil, config, "none", done),
                                   !.ops = @ + 1]
    /\ UNCHANGED <<codec, imp, build>>

\* ------------------------------------------------ every managed resource

\* one managed object of any kind, from before its Create
Init ==
    /\ codec = Off /\ imp = Off /\ build = Off
    /\ \/ EntryInit
       \/ PageInit
       \/ DatabaseInit
       \/ BlockInit
       \/ PropertyInit
       \/ ListingInit
       \/ LookupInit

Next ==
    \/ EntryCreate \/ EntryRead \/ EntryUpdate \/ EntryDelete
    \/ PageCreate \/ PageRead \/ PageUpdate \/ PageDelete \/ RetitleRemotely
    \/ DatabaseCreate \/ DatabaseRead \/ DatabaseUpdate \/ DatabaseDelete
    \/ RenameTitleColumnRemotely
    \/ BlockCreate \/ BlockRead \/ BlockUpdate \/ BlockDelete \/ RewriteRemotely
    \/ PropertyCreate \/ PropertyRead \/ PropertyUpdate \/ PropertyDelete
    \/ DropColumnRemotely \/ RenameColumnRemotely \/ AddNamesakeRemotely
    \/ ArchiveRemotely \/ PurgeRemotely
    \/ ListingRead \/ AddRowRemotely
    \/ PageLookup \/ UserLookup

Spec == Init /\ [][Next]_vars

ArchivableKinds == {"block", "page", "database", "entry"}
ManagedPropertyKinds == {"property_basic", "property_select", "property_number"}

\* C5: a Read of a block, page, database or entry that the API answers
\* with archived=true leaves no tracked state (nothing refreshed is
\* written) and reports no error
C5_ArchivedReadDrops ==
    (res.kind \in ArchivableKinds /\ res.last.op = "Read" /\ res.last.answer = "archived")
        => (res.state = Nil /\ res.last.error = Null)

\* a tracked block was archived in the workspace and the Read dropped it
C5_Witness ==
    /\ res.kind = "block" /\ res.last.op = "Read" /\ res.last.answer = "archived"
    /\ res.last.prior # Nil /\ res.remote.archived
    /\ res.state = Nil /\ res.last.error = Null

\* C6: a Read of a tracked object whose lookup fails as not found leaves no
\* tracked state and reports no error
C6_MissingReadDrops ==
    (res.kind \in ArchivableKinds \cup ManagedPropertyKinds
        /\ res.last.op = "Read" /\ res.last.answer = "not_found")
        => (res.state = Nil /\ res.last.error = Null)

\* C7: a Read whose API call fails in transit reports an error and leaves
\* the tracked state as it was; it does not drop the object
C7_FailedReadReportedStateKept ==
    (res.kind \in ArchivableKinds \cup ManagedPropertyKinds
        /\ res.last.op = "Read" /\ res.last.answer = "transport")
        => (res.last.error # Null /\ res.state = res.last.prior)

\* what the validators would say of the values a configuration holds: the
\* option colors of select and multi_select, the format of number
ValueDiagnostics(kind, plan) ==
    IF kind = "property_select"
    THEN {ColorValidator(Known(Elements(plan.options)[label])) : label \in Keys(plan.options)}
         \ {Nil}
    ELSE IF kind = "property_number" THEN {NumberFormatValidator(plan.format)} \ {Nil}
    ELSE {}

\* C9: a Create or Update whose configuration holds an option color or a
\* number format outside its enumeration fails with the diagnostic that
\* lists the accepted values, and sends no request
C9_InvalidValueRejectedUnsent ==
    (res.kind \in ManagedPropertyKinds /\ res.last.op \in {"Create", "Update"}
        /\ ValueDiagnostics(res.kind, res.last.plan) # {})
        => /\ res.last.diags = ValueDiagnostics(res.kind, res.last.plan)
           /\ res.last.error # Null
           /\ res.last.sent = <<>>

\* what a Read of the object held by the workspace answers, for each way
\* the handler's range may go, when the call is served
ReadOutcomes(kind, state, remote) ==
    CASE kind = "page" -> {PageResourceRead(state, PageGetResponse(remote, "none"))}
      [] kind = "block" -> {BlockResourceRead(state, BlockGetResponse(remote, "none"))}
      [] kind = "entry" ->
           {DatabaseEntryRead(state, PageGetResponse(remote, "none"), t) :
              t \in FirstTitle(PageGetResponse(remote, "none"))}
      [] kind = "database" ->
           {DatabaseResourceRead(state, DatabaseGetResponse(remote, "none"), t) :
              t \in IF TitleColumns(remote) = {} THEN {Null} ELSE TitleColumns(remote)}

\* C11: a successful Delete of a page, entry, database or block leaves the
\* remote object in the workspace, marked archived, and nothing tracked; a
\* Read of that object from the state tracked before drops it without
\* error; and tracked state comes back only through a Create
C11_DestroyArchives ==
    [][/\ ((res.kind \in ArchivableKinds /\ res'.ops = res.ops + 1
              /\ res'.last.op = "Delete" /\ res'.last.error = Null)
             => (/\ res'.state = Nil
                 /\ res'.remote # Nil /\ res'.remote.archived /\ ~res'.remote.gone
                 /\ \A read \in ReadOutcomes(res.kind, res.state, res'.remote) :
                       read.state = Nil /\ read.error = Null))
        /\ ((res.kind \in ArchivableKinds /\ res.state = Nil /\ res'.state # Nil)
             => res'.last.op = "Create")]_vars

\* a page that was tracked and live has been deleted: archived, still there
C11_Witness ==
    /\ res.kind = "page" /\ res.last.op = "Delete" /\ res.last.error = Null
    /\ res.last.prior # Nil /\ res.state = Nil
    /\ res.remote.archived /\ ~res.remote.gone

\* C12: an Update of a divider, table_of_contents, synced_block, column_list
\* or column block reports an error, sends no request and leaves tracked
\* state as it was
C12_ImmutableUpdateRefused ==
    (/\ res.kind = "block" /\ res.last.op = "Update"
     /\ ValueString(res.last.plan.type) \in ImmutableKinds)
    => /\ res.last.error = "Error building block update"
       /\ res.last.sent = <<>>
       /\ res.state = res.last.prior

\* a colour change on a tracked table_of_contents block has been refused
C12_Witness ==
    /\ res.kind = "block" /\ res.last.op = "Update"
    /\ ValueString(res.last.plan.type) = "table_of_contents"
    /\ res.last.plan.color # res.last.prior.color
    /\ res.last.error # Null /\ res.last.sent = <<>>
    /\ res.state = res.last.prior /\ res.state # Nil

\* the listing has stored the entries of a Read
EntriesStored == res.kind = "listing" /\ res.state # Nil
\* the date values of the i-th row the last Read met
DateNames(i) ==
    {n \in DOMAIN RowPage(res.served.rows[i]).properties :
        /\ RowPage(res.served.rows[i]).properties[n].type = "date"
        /\ RowPage(res.served.rows[i]).properties[n].date # Nil}

\* C13: in the listing a date value whose time of day is midnight UTC is
\* rendered as a bare date (YYYY-MM-DD), and a date value with any other
\* time of day in full RFC3339
C13_MidnightListedAsBareDate ==
    EntriesStored =>
        \A i \in 1..Len(res.state.entries) : \A n \in DateNames(i) :
            LET t == ParseEntryDate(RowPage(res.served.rows[i]).properties[n].date.start)
                shown == res.state.entries[i].properties[n]
            IN IF IsMidnight(t) /\ ZeroOffset(t.zone) THEN shown = DateString(t)
               ELSE ParseRFC3339(shown).ok

\* C14: a property of a kind the listing has no case for is listed as the
\* empty string under its own name; a Read whose queries are all served
\* succeeds and lists every entry with every property of its page
C14_UnlistedKindEmpty ==
    (res.kind = "listing" /\ res.last.op = "Read" /\ res.served.failAt = 0)
    => /\ res.last.error = Null /\ res.state # Nil
       /\ Len(res.state.entries) = Len(res.served.rows)
       /\ \A i \in 1..Len(res.served.rows) :
             LET page == RowPage(res.served.rows[i])
                 entry == res.state.entries[i]
             IN /\ entry.id = Known(normalizeID(page.id))
                /\ DOMAIN entry.properties = DOMAIN page.properties
                /\ \A n \in DOMAIN page.properties :
                      IF page.properties[n].type \notin ListedKinds
                      THEN entry.properties[n] = <<>>
                      ELSE entry.properties[n] = rawPropertyToString(page.properties[n])

\* a row with a place and a button property has been listed, with its
\* number and its select beside them
C14_Witness ==
    /\ EntriesStored /\ res.last.error = Null /\ Len(res.state.entries) >= 2
    /\ \E i \in 1..Len(res.state.entries) :
          /\ res.served.rows[i].template = "filled"
          /\ res.state.entries[i].properties["Where"] = <<>>
          /\ res.state.entries[i].properties["Press"] = <<>>
          /\ res.state.entries[i].properties["Count"] = <<"4", "2">>
          /\ res.state.entries[i].properties["Kind"] = <<"k">>
          /\ res.state.entries[i].properties["Tags"] = <<"a", ",", " ", "b">>

\* the pages the workspace cut the rows of the last Read into
PagesServed ==
    IF Len(res.served.rows) = 0 THEN 1
    ELSE (Len(res.served.rows) + res.served.chunk - 1) \div res.served.chunk

\* C15: a Read of the listing sends one query per page, the first without
\* a cursor and each later one with the cursor the answer before it gave;
\* when every query is served it stores the entries of all pages in
\* request order, each once; when a query fails it reports an error and
\* stores nothing
C15_AllPagesOrNothing ==
    (res.kind = "listing" /\ res.last.op = "Read")
    => LET pages == RowPages(res.served.rows)
           sent == res.last.sent
           failed == res.served.failAt \in 1..PagesServed
       IN /\ Len(sent) = IF failed THEN res.served.failAt ELSE PagesServed
          /\ sent[1].start_cursor = <<>>
          /\ \A k \in 2..Len(sent) :
                sent[k].start_cursor =
                    ServedQuery(pages, sent[k - 1].start_cursor, res.served.chunk).next_cursor
          /\ \A k \in 1..Len(sent) : \A j \in 1..Len(sent) :
                sent[k].start_cursor = sent[j].start_cursor => k = j
          /\ IF failed
             THEN res.last.error = "Error querying database" /\ res.state = Nil
             ELSE /\ res.last.error = Null
                  /\ res.state.entries = [i \in 1..Len(pages) |-> ListEntry(pages[i])]
                  /\ \A i \in 1..Len(pages) : \A j \in 1..Len(pages) :
                        res.state.entries[i].id = res.state.entries[j].id => i = j

\* the second query of a Read failed after the first was served: nothing
\* of the first page is stored
C15_Witness ==
    /\ res.kind = "listing" /\ res.last.op = "Read"
    /\ Len(res.served.rows) = MaxRows /\ res.served.chunk = 1
    /\ Len(res.last.sent) = 2 /\ res.last.sent[2].start_cursor = CursorAt(1)
    /\ res.last.error # Null /\ res.state = Nil

\* C16: normalizeID applied to its own result returns that result, and two
\* identifiers with the same characters apart from hyphens have the same
\* normal form
C16_NormalizeIdempotent ==
    /\ imp.pc = "renormalized" => imp.nnx = imp.nx
    /\ (imp.pc \in {"normalized", "renormalized"} /\ HexOf(imp.x) = HexOf(imp.y))
           => imp.nx = imp.ny

\* two identifiers hyphenated differently, one with two hyphens in a row,
\* normalized and normalized again
C16_Witness ==
    /\ imp.pc = "renormalized"
    /\ imp.x = <<"a", "-", "-", "1">> /\ imp.y = <<"-", "a", "1">>
    /\ imp.nx = <<"a", "1">> /\ imp.ny = <<"a", "1">> /\ imp.nnx = <<"a", "1">>

\* the fields of the variant a block of each kind is created with ("empty"
\* stands for a variant without fields)
VariantFields(kind) ==
    CASE kind \in {"paragraph", "bulleted_list_item", "numbered_list_item", "toggle",
                   "quote"} -> {"rich_text", "color"}
      [] kind \in {"heading_1", "heading_2", "heading_3"} ->
           {"rich_text", "color", "is_toggleable"}
      [] kind = "to_do" -> {"rich_text", "color", "checked"}
      [] kind = "callout" -> {"rich_text", "color", "icon"}
      [] kind = "code" -> {"rich_text", "language", "caption"}
      [] kind = "equation" -> {"expression"}
      [] kind = "table_of_contents" -> {"color"}
      [] kind = "bookmark" -> {"url", "caption"}
      [] kind = "embed" -> {"url"}
      [] kind = "image" -> {"type", "external", "caption"}
      [] kind = "synced_block" -> {"synced_from"}
      [] kind \in {"divider", "column_list", "column"} -> {"empty"}

\* C17: buildBlockForCreate succeeds for each of the 20 kinds with a block
\* of that kind whose variant has the fields of the kind and no other, and
\* fails as unsupported for any other kind
C17_CreateBuildsKindVariant ==
    /\ Cardinality(BlockKinds) = 20
    /\ build.pc \in {"created", "done"} =>
          LET k == ValueString(build.plan.type) IN
          IF k \in BlockKinds
          THEN /\ build.created.err = Null
               /\ build.created.value.object = "block"
               /\ build.created.value.type = k
               /\ DOMAIN build.created.value.body = VariantFields(k)
          ELSE build.created.err = "unsupported block type" /\ build.created.value = Nil

\* an equation was built from a model that also has text, a caption and a
\* source set: the variant holds the expression alone
C17_Witness ==
    /\ build.pc = "created"
    /\ ValueString(build.plan.type) = "equation"
    /\ build.plan.rich_text = Known(<<"a">>) /\ build.plan.caption = Known(<<"a">>)
    /\ build.plan.synced_from # StrNull
    /\ build.created.err = Null
    /\ build.created.value.body = [expression |-> ValueString(build.plan.expression)]

\* the caption is null, unknown or the empty string
NoCaption(x) == IsNull(x) \/ IsUnknown(x) \/ ValueString(x) = <<>>

\* C18: for code, bookmark and image, buildBlockForCreate gives an empty
\* caption list exactly when the caption is null, unknown or empty, and
\* the encoded caption otherwise; content and language, or the url, are
\* the model's
C18_CaptionOnlyWhenSet ==
    (build.pc \in {"created", "done"} /\ ValueString(build.plan.type) \in CaptionKinds)
    => LET k == ValueString(build.plan.type)
           body == build.created.value.body
       IN /\ build.created.err = Null
          /\ (body.caption = <<>>) <=> NoCaption(build.plan.caption)
          /\ ~NoCaption(build.plan.caption) =>
                body.caption = plainToRichText(ValueString(build.plan.caption))
          /\ k = "code" =>
                /\ body.rich_text = plainToRichText(ValueString(build.plan.rich_text))
                /\ body.language = ValueString(build.plan.language)
          /\ k = "bookmark" => body.url = ValueString(build.plan.url)
          /\ k = "image" => body.external.url = ValueString(build.plan.url)

\* a code block was built from a model whose caption is the empty string
C18_Witness ==
    /\ build.pc = "created"
    /\ ValueString(build.plan.type) = "code"
    /\ build.plan.caption = Known(<<>>)
    /\ build.plan.rich_text = Known(<<"a">>) /\ build.plan.language = Known(<<"a">>)
    /\ build.created.value.body.caption = <<>>
    /\ build.created.value.body.language = <<"a">>

\* the link target of a segment, empty when it has none
TargetOf(r) == IF r.text.nil \/ r.text.link.nil THEN <<>> ELSE r.text.link.url
\* what decoding is to emit for one segment: its plain content as the run
\* carries it, wrapped when the segment has a link target
Emitted(r) ==
    IF TargetOf(r) # <<>>
    THEN <<"[">> \o r.plain_text \o <<"]", "(">> \o TargetOf(r) \o <<")">>
    ELSE r.plain_text

NoHyphen(id) == \A i \in 1..Len(id) : id[i] # "-"
\* the value of an attribute holds no hyphen (a null attribute holds none)
Normalized(x) == IsNull(x) \/ IsUnknown(x) \/ NoHyphen(ValueString(x))
\* the last handler was op and succeeded with something to track
Stored(op) == res.last.op = op /\ res.last.error = Null /\ res.state # Nil

ReportsSource(block) ==
    block.type = "synced_block" /\ block.body.synced_from # Nil

\* C21: a block Read or Update that succeeds stores as synced_from the
\* normalized source id the workspace reports when it reports one, and
\* the synced_from stored before the operation when it reports none
C21_SyncedFromInboundWins ==
    [][(/\ res.kind = "block" /\ res'.kind = "block"
        /\ res'.ops = res.ops + 1
        /\ res'.last.op \in {"Read", "Update"}
        /\ res'.last.error = Null
        /\ res'.state # Nil)
       => (IF ReportsSource(res'.remote)
           THEN res'.state.synced_from =
                   Known(normalizeID(res'.remote.body.synced_from.block_id))
           ELSE res'.state.synced_from = res.state.synced_from)]_vars

\* a paragraph configured with a source, read back from a workspace that
\* reports none, still stored with the configured source
C21_Witness ==
    /\ res.kind = "block" /\ res.state # Nil
    /\ res.last.op = "Read" /\ res.last.error = Null
    /\ ~ReportsSource(res.remote)
    /\ res.last.prior.synced_from = Known(<<"b", "-", "1">>)
    /\ res.state.synced_from = Known(<<"b", "-", "1">>)

\* ------------------------------------------------------------------ C22
\* readBlockIntoState applied to any served block and any stored model

ContainerId == <<"q", "-", "2">>

\* the stored models a block is read into: one with every attribute set,
\* and the one an import leaves (the id alone)
StoredFull ==
    [id |-> Known(<<"o", "1">>), parent_id |-> Known(<<"p", "1">>),
     type |-> Known("paragraph"), after |-> Known(SiblingId),
     has_children |-> Known(FALSE), rich_text |-> Known(<<"a">>),
     color |-> Known(<<>>), is_toggleable |-> Known(FALSE), checked |-> Known(FALSE),
     icon |-> Known(<<"j">>), language |-> Known(<<>>), caption |-> Known(<<"k">>),
     url |-> Known(<<"u">>), expression |-> Known(<<"x">>),
     synced_from |-> Known(<<"s", "1">>)]
StoredImported ==
    [f \in DOMAIN StoredFull |-> IF f = "id" THEN Known(ObjectId) ELSE StrNull]
StoredModels == {StoredFull, StoredImported}

\* the model a served block of a kind was made from: every attribute
\* differs from the stored ones
ServedFrom(kind, icon, source) ==
    [id |-> StrUnknown, parent_id |-> Known(ContainerId), type |-> Known(kind),
     after |-> StrNull, has_children |-> StrUnknown, rich_text |-> Known(<<"n">>),
     color |-> Known(<<"r">>), is_toggleable |-> Known(TRUE), checked |-> Known(TRUE),
     icon |-> icon, language |-> Known(<<"g">>), caption |-> Known(<<"c">>),
     url |-> Known(<<"w">>), expression |-> Known(<<"e">>), synced_from |-> source]

\* a block as the API serves it: of a kind of the enumeration, or a table,
\* under a page, a block or the workspace
ParentTypes == {"page_id", "block_id", "workspace"}
ServedBlock(kind, icon, source, parentType) ==
    LET made == ServedBlockAppend(
                    BlockAppendRequest(ContainerId,
                        <<buildBlockForCreate(ServedFrom(kind, icon, source)).value>>,
                        <<>>))
        block == IF kind \in BlockKinds THEN ViewBlock(made)
                 ELSE [id |-> ObjectId, archived |-> FALSE,
                       parent |-> [type |-> "page_id", id |-> ContainerId],
                       type |-> kind, has_children |-> FALSE,
                       body |-> [table_width |-> 2]]
    IN [block EXCEPT !.parent.type = parentType, !.has_children = TRUE]

PopulateInit ==
    build \in {[pc |-> "stored", state |-> s, block |-> Nil, read |-> Nil] :
                 s \in StoredModels}

\* the API answers with a block
PopulateReceive ==
    /\ build.pc = "stored"
    /\ \E kind \in BlockKinds \cup {"table"}, icon \in {StrNull, Known(<<"i">>)},
          source \in BlockSources, parentType \in ParentTypes :
          build' = [build EXCEPT !.block = ServedBlock(kind, icon, source, parentType),
                                 !.pc = "received"]
    /\ UNCHANGED <<codec, imp, res>>

\* a handler's call of readBlockIntoState
PopulateRead ==
    /\ build.pc = "received"
    /\ build' = [build EXCEPT !.read = readBlockIntoState(build.block, build.state),
                              !.pc = "read"]
    /\ UNCHANGED <<codec, imp, res>>

PopulateNext == PopulateReceive \/ PopulateRead

SpecPopulateInit == codec = Off /\ imp = Off /\ PopulateInit /\ res = NoResource

SpecPopulate == SpecPopulateInit /\ [][PopulateNext]_vars

\* the attributes the documentation lists for each kind
RelevantFields(kind) ==
    CASE kind \in TextColorKinds -> {"rich_text", "color"}
      [] kind \in HeadingKinds -> {"rich_text", "color", "is_toggleable"}
      [] kind = "to_do" -> {"rich_text", "checked", "color"}
      [] kind = "callout" -> {"rich_text", "icon", "color"}
      [] kind = "code" -> {"rich_text", "language", "caption"}
      [] kind = "equation" -> {"expression"}
      [] kind = "table_of_contents" -> {"color"}
      [] kind \in {"bookmark", "image"} -> {"url", "caption"}
      [] kind = "embed" -> {"url"}
      [] kind = "synced_block" -> {"synced_from"}
      [] OTHER -> {}

\* C22: readBlockIntoState changes no attribute but id, has_children,
\* type, parent_id (only under a page or block parent) and the attributes
\* listed for the served block's kind; every other attribute keeps its
\* prior value, and a block of a kind outside the enumeration changes no
\* kind attribute
C22_ReadChangesOnlyKindFields ==
    build.pc = "read" =>
        LET changed == {f \in DOMAIN build.state : build.read[f] # build.state[f]}
            allowed == {"id", "has_children", "type"}
                       \cup (IF build.block.parent.type \in {"page_id", "block_id"}
                             THEN {"parent_id"} ELSE {})
                       \cup RelevantFields(build.block.type)
        IN /\ DOMAIN build.read = DOMAIN build.state
           /\ changed \subseteq allowed

\* an equation under the workspace read into a model with every attribute
\* set: the expression, id, type and has_children changed and nothing else
C22_Witness ==
    /\ build.pc = "read"
    /\ build.state = StoredFull
    /\ build.block.type = "equation" /\ build.block.parent.type = "workspace"
    /\ build.read = [StoredFull EXCEPT !.id = Known(<<"o", "1">>),
                                       !.type = Known("equation"),
                                       !.has_children = Known(TRUE),
                                       !.expression = Known(<<"e">>)]

\* ------------------------------------------------------------------ C23

\* the columns of a database that have the given ID
ColumnsWithId(db, propertyID) ==
    {n \in DOMAIN db.properties : db.properties[n].id = propertyID}

\* C23: a property Read that finds a column stores the ID and current name
\* of the column whose ID is the stored ID when the database has such a
\* column, and of the column under the stored name otherwise, whatever the
\* order the columns are met in
C23_LookupPrefersId ==
    [][(/\ res.kind \in ManagedPropertyKinds
        /\ res'.ops = res.ops + 1
        /\ res'.last.op = "Read" /\ res'.last.answer = "live")
       => LET propertyID == ValueName(res.state.id)
              propertyName == ValueName(res.state.name)
              byId == ColumnsWithId(res.remote, propertyID)
          IN /\ res'.state # Nil
             /\ IF byId # {}
                THEN /\ res'.state.id = Known(propertyID)
                     /\ ValueName(res'.state.name) \in byId
                ELSE /\ res'.state.name = Known(propertyName)
                     /\ res'.state.id = Known(res.remote.properties[propertyName].id)]_vars

\* ------------------------------------------------------------------ C24

HoldsValueOf(page, name, bucket) ==
    /\ name \in DOMAIN page.properties
    /\ page.properties[name].type = bucket
    /\ (bucket = "date" => page.properties[name].date # Nil)

RemovedNames(state, plan) ==
    UNION {removedKeys(state.buckets[b], plan.buckets[b]) : b \in Buckets}
\* the values the plan gives a name, over all buckets
PlannedValues(plan, name) ==
    {EntryProperty(b, plan.buckets[b].m[name]) :
        b \in {x \in Buckets : name \in SentKeys(x, plan.buckets[x])}}

\* C26: in the request of a database-entry Update a name that is removed
\* from one bucket and that the plan sets in another bucket, or that is the
\* title column's name, carries the plan's value or the title, not the
\* clearing value
C26_ClearingKeepsPlanValues ==
    (res.kind = "entry" /\ res.last.op = "Update" /\ Len(res.last.sent) = 2) =>
        LET properties == res.last.sent[2].properties
            plan == res.last.plan
        IN \A name \in RemovedNames(res.last.prior, plan) :
              /\ name \in findTitlePropertyName(res.db) =>
                    properties[name] = TitleProperty(plan)
              /\ (name \notin findTitlePropertyName(res.db)
                  /\ PlannedValues(plan, name) # {}) =>
                    properties[name] \in PlannedValues(plan, name)

\* ------------------------------------------------------------------ C27

\* C27: for every kind that takes updates and every flat model, the kind
\* payload of the update request equals the kind payload of the block
\* built for create from the same model, the empty caption included
C27_UpdatePayloadEqualsCreatePayload ==
    (build.pc = "done" /\ ValueString(build.plan.type) \in MutableKinds) =>
        /\ build.created.err = Null /\ build.update.err = Null
        /\ build.update.value.field = build.created.value.type
        /\ build.update.value.body = build.created.value.body

\* ------------------------------------------------------------------ C28

\* the tracked object was just created and the workspace holds it as the
\* Create left it
JustCreated ==
    /\ res.kind \in {"page", "database", "entry", "block"}
    /\ res.last.op = "Create" /\ res.last.error = Null /\ res.state # Nil
    /\ res.remote =
          CASE res.kind = "page" -> ServedPageCreate(res.last.sent[1])
            [] res.kind = "database" -> ServedDatabaseCreate(res.last.sent[1])
            [] res.kind = "entry" ->
                 [ServedPageCreate(res.last.sent[2]) EXCEPT
                     !.properties = @ @@ UnsentDefaults(res.db, @)]
            [] res.kind = "block" -> ServedBlockAppend(res.last.sent[1])

\* C28: a Read that follows a successful Create of a page, database,
\* database entry or block, the workspace object unchanged, stores the
\* state the Create stored: every configured attribute, the parent page or
\* database ID as it was written included, keeps its value
C28_ReadAfterCreateStable ==
    [][(/\ JustCreated
        /\ res'.ops = res.ops + 1
        /\ res'.last.op = "Read" /\ res'.last.error = Null)
       => res'.state = res.state]_vars

\* ------------------------------------------------------------------ C29
\* a date value of a configuration, sent by Create or Update and shown by
\* the Read that follows

DateMonths == {<<"0", "1">>, <<"0", "2">>, <<"1", "2">>}
DateDays == {<<"0", "1">>, <<"1", "5">>, <<"3", "1">>}
\* what follows the calendar date: nothing, or a time of day and a zone
DateTails ==
    {<<>>,
     <<"T", "0", "0", ":", "0", "0", ":", "0", "0", "Z">>,
     <<"T", "1", "0", ":", "3", "0", ":", "0", "0", "Z">>,
     <<"T", "1", "0", ":", "3", "0", ":", "0", "0", "+", "0", "0", ":", "0", "0">>,
     <<"T", "1", "0", ":", "3", "0", ":", "0", "0", "+", "0", "5", ":", "3", "0">>,
     <<"T", "0", "0", ":", "0", "0", ":", "0", "0", "+", "0", "5", ":", "3", "0">>,
     <<"T", "1", "0", ":", "3", "0", ":", "0", "0", ".", "5", "0", "0", "Z">>}
DateTexts ==
    {<<"2", "0", "2", "4", "-">> \o m \o <<"-">> \o d \o t : m \in DateMonths, d \in DateDays, t \in DateTails}

DatesInit ==
    imp \in {[pc |-> "value", v |-> v, sent |-> NoTime, read |-> <<>>] : v \in DateTexts}

\* buildEntryProperties parses the value into the date it sends
DateBuild ==
    /\ imp.pc = "value"
    /\ imp' = [imp EXCEPT !.sent = ParseEntryDate(imp.v), !.pc = "sent"]
    /\ UNCHANGED <<codec, build, res>>

\* readEntryProperties formats the date of the answer, the date sent
DateRead ==
    /\ imp.pc = "sent" /\ imp.sent.ok
    /\ imp' = [imp EXCEPT !.read = formatNotionDate(imp.sent), !.pc = "shown"]
    /\ UNCHANGED <<codec, build, res>>

DatesNext == DateBuild \/ DateRead

SpecDatesInit == codec = Off /\ DatesInit /\ build = Off /\ res = NoResource

SpecDates == SpecDatesInit /\ [][DatesNext]_vars

\* C29: a date_properties value that is a date (YYYY-MM-DD) or an RFC3339
\* datetime is shown by Read as it was written: formatting the date built
\* from it gives the value back
C29_DateRoundTrip ==
    imp.pc = "shown" => imp.read = imp.v

\* ------------------------------------------------------------------ C30
\* the paging loops of DatabaseEntriesDataSource.Read and
\* UserDataSource.Read, one request a step

MaxPagingRows == 3
MaxRequests == 4

\* a list answered in pages; blankAt > 0 is the offset at which the answer
\* says has_more and carries no next cursor
ServedPaging(rows, cursor, chunk, blankAt) ==
    LET answer == ServedQuery(rows, cursor, chunk) IN
    IF answer.has_more /\ OffsetOf(cursor) + Len(answer.results) = blankAt
    THEN [answer EXCEPT !.next_cursor = <<>>]
    ELSE answer

\* rows are numbered; wanted is the row of the user looked up (0: nobody)
PagingInit ==
    res \in {[kind |-> "paging", loop |-> l, rows |-> [i \in 1..n |-> i],
              chunk |-> c, blankAt |-> b, wanted |-> w, pc |-> "loop",
              cursor |-> <<>>, requested |-> <<>>, listed |-> <<>>] :
                l \in {"entries", "users"}, n \in 1..MaxPagingRows, c \in 1..2,
                b \in 0..(MaxPagingRows - 1), w \in 0..1}

\* one turn of the loop of DatabaseEntriesDataSource.Read
EntriesQuery ==
    /\ res.kind = "paging" /\ res.loop = "entries" /\ res.pc = "loop"
    /\ Len(res.requested) < MaxRequests
    /\ LET result == ServedPaging(res.rows, res.cursor, res.chunk, res.blankAt) IN
       res' = [res EXCEPT
                  !.requested = Append(@, res.cursor),
                  !.listed = @ \o result.results,
                  !.pc = IF ~result.has_more THEN "done" ELSE @,
                  !.cursor = IF ~result.has_more THEN @ ELSE result.next_cursor]
    /\ UNCHANGED <<codec, imp, build>>

\* one turn of the loop of UserDataSource.Read
UsersList ==
    /\ res.kind = "paging" /\ res.loop = "users" /\ res.pc = "loop"
    /\ Len(res.requested) < MaxRequests
    /\ LET users == ServedPaging(res.rows, res.cursor, res.chunk, res.blankAt)
           found == \E i \in 1..Len(users.results) : users.results[i] = res.wanted
       IN res' = [res EXCEPT
                     !.requested = Append(@, res.cursor),
                     !.listed = @ \o users.results,
                     !.pc = IF found THEN "found"
                            ELSE IF ~users.has_more THEN "done" ELSE @,
                     !.cursor = IF found \/ ~users.has_more THEN @
                                ELSE users.next_cursor]
    /\ UNCHANGED <<codec, imp, build>>

PagingNext == EntriesQuery \/ UsersList

SpecPagingInit == codec = Off /\ imp = Off /\ build = Off /\ PagingInit

SpecPaging == SpecPagingInit /\ [][PagingNext]_vars

\* C30: the paging loops request no page twice: every answer with
\* has_more moves the loop to a page not requested before, also when the
\* answer carries an empty next cursor
C30_NoPageRequestedTwice ==
    res.kind = "paging" =>
        \A i, j \in 1..Len(res.requested) :
            i < j => res.requested[i] # res.requested[j]

====
